---- MODULE Spec2Model ----
(***************************************************************************)
(* KooKooha survey platform: the sociometric network and team-dynamics     *)
(* analytics of app/services/analytics_service.py, with the response store *)
(* it reads (app/routes/responses.py) and the snapshot cache it writes.    *)
(*                                                                         *)
(* Numbers.  A weight is written in tenths (0.5 == 5, 1.0 == 10) and kept   *)
(* as the Python float it is parsed to, with its exact binary64 value, so  *)
(* that a sum is rounded as Python rounds it.  A quotient is kept as a      *)
(* fraction [num, den] with den > 0, and round(x, k) is computed by        *)
(* RoundDiv.                                                               *)
(***************************************************************************)
EXTENDS Integers, Sequences, FiniteSets, TLC

VARIABLES
    survey_type,        \* Survey.survey_type of the one survey analysed
    total_invitations,  \* number of SurveyInvitation rows of the survey
    responses,          \* the Response rows of the survey, in insertion order
    snapshots,          \* the AnalyticsSnapshot rows, in insertion order
    now,                \* datetime.utcnow(), in hours
    result,             \* what the last operation returned or raised
    accounts,           \* the User rows that can log in, by id
    surveys,            \* the Survey rows, by id
    requests,           \* the submissions being handled, by request
    survey_invitations, \* the SurveyInvitation rows, by id
    payments            \* the Payment rows, by id

\* The tables the analytics service does not touch.
other_tables == <<accounts, surveys, requests, survey_invitations, payments>>

vars == <<survey_type, total_invitations, responses, snapshots, now, result, other_tables>>

----------------------------------------------------------------------------
(* Bounds of the model *)

MaxResponses == 3
MaxNominations == 3
MaxIrregular == 1
MaxSnapshots == 2
MaxClock == 24
MaxNodes == 3
MaxSurveys == 2
MaxScored == 2
MaxAnswers == 2
TickHours == 12

----------------------------------------------------------------------------
(* Generic helpers *)

\* An absent respondent_id (NULL): falsy, like 0, in "if not respondent_id".
None == 0

SeqsUpTo(S, n) == UNION {[1..k -> S] : k \in 0..n}

Range(s) == {s[i] : i \in DOMAIN s}

RECURSIVE SumSeq(_)
SumSeq(s) == IF s = <<>> THEN 0 ELSE Head(s) + SumSeq(Tail(s))

RECURSIVE SumSet(_, _)
SumSet(S, f) ==
    IF S = {} THEN 0
    ELSE LET x == CHOOSE y \in S : TRUE IN f[x] + SumSet(S \ {x}, f)

Min(a, b) == IF a <= b THEN a ELSE b

\* A fraction with a positive denominator.
Frac(n, d) == IF d < 0 THEN [num |-> -n, den |-> -d] ELSE [num |-> n, den |-> d]

FracGeq(a, b) == a.num * b.den >= b.num * a.den
FracLess(a, b) == a.num * b.den < b.num * a.den
FracEq(a, b) == a.num * b.den = b.num * a.den

\* round(num/den * scale) to the nearest integer, ties to even (den > 0).
RoundDiv(num, den) ==
    LET q == num \div den
        r == num % den
    IN  IF 2 * r > den \/ (2 * r = den /\ q % 2 = 1) THEN q + 1 ELSE q

----------------------------------------------------------------------------
(* Python floats (IEEE-754 binary64, round to nearest, ties to even).  A
   float is [t, neg, hi, lo]: t is the decimal it stands for, in tenths;
   its exact magnitude is (hi * 2^28 + lo) * 2^-55, with 0 <= lo < 2^28.
   Every float of the model is a multiple of 2^-55 below 16, so a sum is the
   exact sum rounded to 53 significant bits. *)

Limb == 2^28

\* The float a number written with one decimal is parsed to: exact for a
\* multiple of 0.5, and for the other decimals below 1.0 the nearest float
\* (0.1 is 0x1.999999999999ap-4, 0.7 is 0x1.6666666666666p-1).
Double(t) ==
    LET Of(mag) ==
            CASE mag % 5 = 0 -> [hi |-> (mag \div 5) * 2^26, lo |-> 0]
              [] mag = 1 -> [hi |-> 13421772, lo |-> 214748365]
              [] mag = 2 -> [hi |-> 26843545, lo |-> 161061274]
              [] mag = 3 -> [hi |-> 40265318, lo |-> 107374182]
              [] mag = 4 -> [hi |-> 53687091, lo |-> 53687092]
              [] mag = 6 -> [hi |-> 80530636, lo |-> 214748364]
              [] mag = 7 -> [hi |-> 93952409, lo |-> 161061272]
              [] mag = 8 -> [hi |-> 107374182, lo |-> 107374184]
              [] mag = 9 -> [hi |-> 120795955, lo |-> 53687092]
    IN  [t |-> t, neg |-> t < 0] @@ Of(IF t < 0 THEN -t ELSE t)

MagAdd(a, b) ==
    [hi |-> a.hi + b.hi + (a.lo + b.lo) \div Limb, lo |-> (a.lo + b.lo) % Limb]

MagLess(a, b) == a.hi < b.hi \/ (a.hi = b.hi /\ a.lo < b.lo)

\* a - b for a >= b
MagSub(a, b) ==
    [hi |-> a.hi - b.hi - (IF a.lo < b.lo THEN 1 ELSE 0),
     lo |-> (a.lo - b.lo + Limb) % Limb]

\* The bits a magnitude has beyond 53: none below 2^53, i.e. hi < 2^25.
RECURSIVE ExcessBits(_)
ExcessBits(hi) == IF hi < 2^25 THEN 0 ELSE 1 + ExcessBits(hi \div 2)

\* Rounding to 53 significant bits: the excess bits are dropped, and the
\* last kept bit goes up when they exceed half of it, or equal it and the
\* kept bit is odd.
RoundToDouble(m) ==
    LET Rounded(unit) ==
            LET r == m.lo % unit
                up == 2 * r > unit \/ (2 * r = unit /\ (m.lo \div unit) % 2 = 1)
                lo == m.lo - r + (IF up THEN unit ELSE 0)
            IN  [hi |-> m.hi + lo \div Limb, lo |-> lo % Limb]
    IN  Rounded(2^ExcessBits(m.hi))

\* a + b on floats
FloatAdd(a, b) ==
    LET Sum(neg, m) ==
            [t |-> a.t + b.t, neg |-> neg /\ (m.hi # 0 \/ m.lo # 0),
             hi |-> m.hi, lo |-> m.lo]
    IN  IF a.neg = b.neg THEN Sum(a.neg, RoundToDouble(MagAdd(a, b)))
        ELSE IF MagLess(a, b) THEN Sum(b.neg, RoundToDouble(MagSub(b, a)))
        ELSE Sum(a.neg, RoundToDouble(MagSub(a, b)))

\* a <= b on floats
FloatLeq(a, b) ==
    IF a.neg # b.neg THEN a.neg
    ELSE IF a.neg THEN ~MagLess(a, b)
    ELSE ~MagLess(b, a)

IsZero(a) == a.hi = 0 /\ a.lo = 0

----------------------------------------------------------------------------
(* The JSON values an answer can hold.  Response.answers is Dict[str, Any]
   and _validate_survey_answers accepts any content when the survey defines
   no typed question, so every value below can be stored. *)

Users == {1, 2, 3}

\* JSON scalars used as identifiers: an int, a string, a float (n.0).
IntId(n) == [k |-> "int", n |-> n, s |-> ""]
StrId(s) == [k |-> "str", n |-> 0, s |-> s]
FloatId(n) == [k |-> "float", n |-> n, s |-> ""]

\* Python's str() of such a value.
PyStr(v) ==
    CASE v.k = "int" -> ToString(v.n)
      [] v.k = "str" -> v.s
      [] v.k = "float" -> ToString(v.n) \o ".0"

\* isinstance(v, (int, str))
IsIntOrStr(v) == v.k \in {"int", "str"}

\* The weight of a selection: key absent, a number (in tenths), or a JSON
\* value that is no number (a string, null).
WAbsent == [k |-> "absent", n |-> 0]
WNum(n) == [k |-> "num", n |-> n]
WBad == [k |-> "bad", n |-> 0]

\* One element of a "selections" list: a dict with or without "user_id".
Selection(uid, w) == [k |-> "dict", has_user_id |-> TRUE, user_id |-> uid, weight |-> w]
SelectionNoUser == [k |-> "dict", has_user_id |-> FALSE, user_id |-> IntId(0), weight |-> WAbsent]

\* Regular list elements name a user by its integer id; the others are a
\* numeric string, a string that is no id, and a float.
RegularItems == {IntId(u) : u \in Users}
ListItems == RegularItems \cup {StrId("1"), StrId("x"), FloatId(2)}

SelItems ==
    {Selection(IntId(1), WNum(10)), Selection(IntId(2), WAbsent),
     Selection(IntId(2), WNum(20)), Selection(IntId(2), WNum(0)),
     Selection(StrId("1"), WNum(-10)), Selection(IntId(3), WBad),
     SelectionNoUser}

\* An answer: a scalar (rating or text), a list, a dict with a "selections"
\* list, a dict whose "selections" is no list, a dict without "selections".
Scalar == [k |-> "scalar", items |-> <<>>]
ListAnswer(items) == [k |-> "list", items |-> items]
SelAnswer(items) == [k |-> "selections", items |-> items]
SelNotList == [k |-> "selections_not_list", items |-> <<>>]
OtherDict == [k |-> "dict", items |-> <<>>]

\* What an answer takes from the budget of irregular content: each element
\* of a selections list, each list element that is no integer id, and each
\* dict that nominates nobody.
IrregularCount(answer) ==
    CASE answer.k = "list" ->
             Cardinality({i \in DOMAIN answer.items : answer.items[i] \notin RegularItems})
      [] answer.k = "selections" -> Len(answer.items)
      [] answer.k = "scalar" -> 0
      [] OTHER -> 1

\* The answers that fit when n more nominations and m more irregular
\* elements may be stored.
AnswerValues(n, m) ==
    {a \in {Scalar, SelNotList, OtherDict}
           \cup {ListAnswer(s) : s \in SeqsUpTo(ListItems, n) \ {<<>>}}
           \cup {SelAnswer(s) : s \in SeqsUpTo(SelItems, Min(n, m)) \ {<<>>}} :
        IrregularCount(a) <= m}

NominationCount(answers) == SumSeq([i \in DOMAIN answers |-> Len(answers[i].items)])

StoreNominations(rs) == SumSeq([i \in DOMAIN rs |-> NominationCount(rs[i].answers)])

\* An anonymous response (no respondent_id) counts as irregular too.
StoreIrregular(rs) ==
    SumSeq([i \in DOMAIN rs |->
               (IF rs[i].respondent_id = 0 THEN 1 ELSE 0)
               + SumSeq([j \in DOMAIN rs[i].answers |-> IrregularCount(rs[i].answers[j])])])

----------------------------------------------------------------------------
(* The user table: a fixed fixture.  Users 1 and 3 carry the same first and
   last name; user 2 has no last name and is shown by e-mail. *)

UserTable ==
    [u \in Users |->
        CASE u = 1 -> [id |-> 1, first_name |-> "Ann", last_name |-> "Lee",
                       email |-> "ann@example.com", department |-> "Eng",
                       position |-> "Lead"]
          [] u = 2 -> [id |-> 2, first_name |-> "Bob", last_name |-> "",
                       email |-> "bob@example.com", department |-> "Eng",
                       position |-> "Dev"]
          [] u = 3 -> [id |-> 3, first_name |-> "Ann", last_name |-> "Lee",
                       email |-> "lee@example.com", department |-> "Ops",
                       position |-> "Dev"]]

\* The strings str() yields for the identifiers of the model, in Python's
\* (lexicographic) string order, which sorted() uses.
IdOrder == <<"1", "2", "3", "x">>

StrRank(s) == CHOOSE i \in DOMAIN IdOrder : IdOrder[i] = s

\* A key that keeps the direction of the nomination: (respondent, target).
DirectedPair(a, b) == <<a, b>>

\* tuple(sorted([a, b]))
SortedPair(a, b) == IF StrRank(a) <= StrRank(b) THEN <<a, b>> ELSE <<b, a>>

----------------------------------------------------------------------------
(* AnalyticsService._analyze_sociometric_connections *)

\* connections[key] = connections.get(key, 0) + weight
AddWeight(connections, key, weight) ==
    IF key \in DOMAIN connections
    THEN [connections EXCEPT ![key] = FloatAdd(@, weight)]
    ELSE connections @@ (key :> weight)

\* The accumulator of the loops: the dict built so far and the exception
\* raised, if any ("" while none).
NoConnections == [connections |-> <<>>, raised |-> ""]

\* A selection counted with weight 1.0 whatever it declares.
AddSelectionIgnoringWeight(acc, respondent_id, selection) ==
    IF acc.raised # "" THEN acc
    ELSE IF ~(selection.k = "dict" /\ selection.has_user_id) THEN acc
    ELSE IF PyStr(selection.user_id) = respondent_id THEN acc
    ELSE [acc EXCEPT !.connections =
             AddWeight(@, SortedPair(respondent_id, PyStr(selection.user_id)),
                       Double(10))]

\* One element of answer["selections"].
AddSelection(acc, respondent_id, selection) ==
    IF acc.raised # "" THEN acc
    ELSE IF ~(selection.k = "dict" /\ selection.has_user_id) THEN acc
    ELSE LET target_id == PyStr(selection.user_id)
             weight == selection.weight
         IN  IF target_id = respondent_id THEN acc
             ELSE IF weight.k = "bad" THEN [acc EXCEPT !.raised = "TypeError"]
             ELSE [acc EXCEPT !.connections =
                      AddWeight(@, SortedPair(respondent_id, target_id),
                                Double(IF weight.k = "absent" THEN 10 ELSE weight.n))]

\* A list element counted without the comparison with the respondent.
AddListItemKeepingSelf(acc, respondent_id, user_id) ==
    IF acc.raised # "" THEN acc
    ELSE IF ~IsIntOrStr(user_id) THEN acc
    ELSE [acc EXCEPT !.connections =
             AddWeight(@, SortedPair(respondent_id, PyStr(user_id)), Double(5))]

\* One element of a list answer: weight 0.5.
AddListItem(acc, respondent_id, user_id) ==
    IF acc.raised # "" THEN acc
    ELSE IF ~IsIntOrStr(user_id) THEN acc
    ELSE LET target_id == PyStr(user_id)
         IN  IF target_id = respondent_id THEN acc
             ELSE [acc EXCEPT !.connections =
                      AddWeight(@, SortedPair(respondent_id, target_id), Double(5))]

RECURSIVE AddItems(_, _, _, _)
AddItems(acc, respondent_id, kind, items) ==
    IF items = <<>> THEN acc
    ELSE AddItems(IF kind = "selections"
                  THEN AddSelection(acc, respondent_id, Head(items))
                  ELSE AddListItem(acc, respondent_id, Head(items)),
                  respondent_id, kind, Tail(items))

\* for question_id, answer in response.answers.items()
RECURSIVE AddAnswers(_, _, _)
AddAnswers(acc, respondent_id, answers) ==
    IF answers = <<>> THEN acc
    ELSE LET answer == Head(answers)
             next == IF answer.k \in {"selections", "list"}
                     THEN AddItems(acc, respondent_id, answer.k, answer.items)
                     ELSE acc
         IN  AddAnswers(next, respondent_id, Tail(answers))

\* for response in responses
RECURSIVE AccumulateConnections(_, _)
AccumulateConnections(acc, rs) ==
    IF rs = <<>> THEN acc
    ELSE LET response == Head(rs)
             next == IF response.respondent_id = None THEN acc
                     ELSE AddAnswers(acc, ToString(response.respondent_id),
                                     response.answers)
         IN  AccumulateConnections(next, Tail(rs))

MaxOf(S) == CHOOSE m \in S : \A x \in S : FloatLeq(x, m)

\* v / max_weight: the quotient in tenths over tenths, and the two floats
\* that were divided, which decide the float the division gives.
FloatDiv(v, max_weight) ==
    Frac(v.t, max_weight.t)
    @@ [of |-> <<v.neg, v.hi, v.lo, max_weight.neg, max_weight.hi, max_weight.lo>>]

\* q >= limit for a quotient q of two floats and a decimal limit.  Off the
\* limit the decimals decide.  On it, the quotient is the float of the limit
\* itself when the two floats are multiples of 0.5, 1.0 when they are the
\* same float, and the dividend when the divisor is 1.0; of other floats
\* the division may fall to either side, and no such quotient is compared
\* here.
QuotientGeq(q, limit) ==
    IF ~FracEq(q, limit) THEN FracGeq(q, limit)
    ELSE CASE /\ q.of[3] = 0 /\ q.of[2] % 2^26 = 0
              /\ q.of[6] = 0 /\ q.of[5] % 2^26 = 0 -> TRUE
           [] <<q.of[1], q.of[2], q.of[3]>> = <<q.of[4], q.of[5], q.of[6]>> -> TRUE
           [] /\ <<q.of[4], q.of[5], q.of[6]>> = <<FALSE, 2^27, 0>>
              /\ (limit.num * 10) % limit.den = 0 ->
                  FloatLeq(Double((limit.num * 10) \div limit.den),
                           [neg |-> q.of[1], hi |-> q.of[2], lo |-> q.of[3]])

\* if connections: max_weight = max(...); v / max_weight for every pair
NormalizeConnections(connections) ==
    LET Divided(max_weight) ==
            IF IsZero(max_weight)
            THEN [connections |-> <<>>, raised |-> "ZeroDivisionError"]
            ELSE [connections |-> [key \in DOMAIN connections |->
                                       FloatDiv(connections[key], max_weight)],
                  raised |-> ""]
    IN  IF DOMAIN connections = {} THEN [connections |-> <<>>, raised |-> ""]
        ELSE Divided(MaxOf({connections[key] : key \in DOMAIN connections}))

_analyze_sociometric_connections(rs, user_map) ==
    LET Normalized(acc) ==
            IF acc.raised # "" THEN [connections |-> <<>>, raised |-> acc.raised]
            ELSE NormalizeConnections(acc.connections)
    IN  Normalized(AccumulateConnections(NoConnections, rs))

----------------------------------------------------------------------------
(* The networkx.Graph built by generate_network_visualization, and the
   networkx functions it calls (all with weight=None: the topology only).
   A graph is [nodes, named, edges, weight]: the node ids in insertion
   order, the nodes that carry attributes, the edges as sorted pairs and the
   weight attribute of each edge. *)

Nodes(G) == Range(G.nodes)

Degree(G, v) == Cardinality({e \in G.edges : v \in {e[1], e[2]}})

Neighbors(G, v) == {u \in Nodes(G) : <<u, v>> \in G.edges \/ <<v, u>> \in G.edges}

Adjacent(G, u, v) == <<u, v>> \in G.edges \/ <<v, u>> \in G.edges

RECURSIVE Reachable(_, _)
Reachable(G, S) ==
    LET T == S \cup UNION {Neighbors(G, v) : v \in S}
    IN  IF T = S THEN S ELSE Reachable(G, T)

RECURSIVE CountComponents(_, _)
CountComponents(G, left) ==
    IF left = {} THEN 0
    ELSE LET v == CHOOSE x \in left : TRUE
         IN  1 + CountComponents(G, left \ Reachable(G, {v}))

\* The components that hold an edge: none in a graph without edges.
ComponentsWithEdges(G) == CountComponents(G, {v \in Nodes(G) : Degree(G, v) > 0})

\* nx.number_connected_components(G)
number_connected_components(G) == CountComponents(G, Nodes(G))

FracAdd(a, b) == [num |-> a.num * b.den + b.num * a.den, den |-> a.den * b.den]

RECURSIVE FracSum(_, _)
FracSum(S, f) ==
    IF S = {} THEN [num |-> 0, den |-> 1]
    ELSE LET x == CHOOSE y \in S : TRUE IN FracAdd(f[x], FracSum(S \ {x}, f))

\* nx.density(G): 0 for fewer than two nodes, else 2m / (n (n - 1))
density(G) ==
    LET n == Cardinality(Nodes(G))
    IN  IF n <= 1 THEN [num |-> 0, den |-> 1]
        ELSE [num |-> 2 * Cardinality(G.edges), den |-> n * (n - 1)]

\* nx.clustering(G, v): the fraction of the pairs of neighbours of v that
\* are adjacent; 0 when v has fewer than two neighbours.
clustering(G, v) ==
    LET nb == Neighbors(G, v)
        d == Cardinality(nb)
        closed == {p \in nb \X nb : StrRank(p[1]) < StrRank(p[2]) /\ Adjacent(G, p[1], p[2])}
    IN  IF d < 2 THEN [num |-> 0, den |-> 1]
        ELSE [num |-> 2 * Cardinality(closed), den |-> d * (d - 1)]

\* nx.average_clustering(G): sum(c) / len(c); the caller never reaches it
\* with an empty graph.
average_clustering(G) ==
    LET Mean(total) == [num |-> total.num, den |-> total.den * Cardinality(Nodes(G))]
    IN  Mean(FracSum(Nodes(G), [v \in Nodes(G) |-> clustering(G, v)]))

\* The length of a shortest path from s to t, or -1 when there is none:
\* breadth-first search from s, level by level.
RECURSIVE BfsDistance(_, _, _, _, _)
BfsDistance(G, seen, frontier, t, d) ==
    IF t \in frontier THEN d
    ELSE IF frontier = {} THEN -1
    ELSE LET next == UNION {Neighbors(G, v) : v \in frontier} \ seen
         IN  BfsDistance(G, seen \cup next, next, t, d + 1)

Distance(G, s, t) == BfsDistance(G, {s}, {s}, t, 0)

\* The number of shortest paths from s to t (0 when there is none).
RECURSIVE PathCount(_, _, _)
PathCount(G, s, t) ==
    LET Through(before) == SumSet(before, [u \in before |-> PathCount(G, s, u)])
        Count(d) ==
            IF d < 0 THEN 0
            ELSE Through({u \in Neighbors(G, t) : Distance(G, s, u) = d - 1})
    IN  IF s = t THEN 1 ELSE Count(Distance(G, s, t))

\* nx.betweenness_centrality(G), normalized: the share of the shortest
\* paths between the other nodes that pass through v, over the pairs of
\* other nodes, scaled by 2 / ((n - 1)(n - 2)) when n > 2.
betweenness_centrality(G, v) ==
    LET n == Cardinality(Nodes(G))
        others == Nodes(G) \ {v}
        Via(from_v, to_v, direct) == from_v > 0 /\ from_v + to_v = direct
        Share(pairs) ==
            FracSum(pairs,
                    [p \in pairs |->
                        [num |-> IF Via(Distance(G, p[1], v), Distance(G, v, p[2]),
                                        Distance(G, p[1], p[2]))
                                 THEN PathCount(G, p[1], v) * PathCount(G, v, p[2])
                                 ELSE 0,
                         den |-> PathCount(G, p[1], p[2])]])
        Scaled(total) ==
            IF n <= 2 THEN total
            ELSE [num |-> 2 * total.num, den |-> total.den * (n - 1) * (n - 2)]
    IN  Scaled(Share({p \in others \X others :
                         StrRank(p[1]) < StrRank(p[2]) /\ Distance(G, p[1], p[2]) > 0}))

\* nx.eigenvector_centrality(G, max_iter=1000), in thousandths, for the
\* graphs of at most three nodes the user table allows.  The power iteration
\* on A + I from the uniform vector converges to the unit eigenvector of the
\* component with the largest eigenvalue: 1/sqrt(n) on every node of an
\* edgeless graph; else 0 outside the component that has the edges, and in
\* it 1/sqrt(2) on both ends of a single edge, 1/sqrt(2) on the middle and
\* 1/2 on the ends of a path, 1/sqrt(3) on a triangle.
eigenvector_centrality(G, v) ==
    LET n == Cardinality(Nodes(G))
        m == Cardinality(G.edges)
        d == Degree(G, v)
    IN  CASE m = 0 /\ n = 1 -> 1000
          [] m = 0 /\ n = 2 -> 707
          [] m = 0 /\ n >= 3 -> 577
          [] m > 0 /\ d = 0 -> 0
          [] m = 1 -> 707
          [] m = 2 /\ d = 2 -> 707
          [] m = 2 /\ d = 1 -> 500
          [] OTHER -> 577

----------------------------------------------------------------------------
(* AnalyticsService.generate_network_visualization *)

RECURSIVE SortedSeq(_)
SortedSeq(S) ==
    IF S = {} THEN <<>>
    ELSE LET m == CHOOSE x \in S : \A y \in S : x <= y
         IN  <<m>> \o SortedSeq(S \ {m})

\* respondent_ids = [r.respondent_id for r in responses if r.respondent_id]
\* users = select(User).where(User.id.in_(respondent_ids)), by primary key
RespondentUsers(rs) ==
    SortedSeq({rs[i].respondent_id : i \in DOMAIN rs} \cap Users)

\* name=f"{first_name} {last_name}" if both are set, else the e-mail
NodeName(user) ==
    IF user.first_name # "" /\ user.last_name # ""
    THEN user.first_name \o " " \o user.last_name
    ELSE user.email

\* The graph with the edges strictly above the threshold only.
BuildGraphStrict(users, connections, min_connection_strength) ==
    LET named == [i \in DOMAIN users |-> ToString(users[i])]
        kept == {key \in DOMAIN connections :
                    FracLess(min_connection_strength, connections[key])}
        extra == {x \in UNION {{key[1], key[2]} : key \in kept} : x \notin Range(named)}
        extra_seq == [i \in 1..Cardinality(extra) |->
                         CHOOSE x \in extra :
                             Cardinality({y \in extra : StrRank(y) < StrRank(x)}) = i - 1]
    IN  [nodes |-> named \o extra_seq,
         named |-> Range(named),
         edges |-> kept,
         weight |-> [key \in kept |-> connections[key]]]

\* G.add_node for every user, then G.add_edge for every connection of
\* weight >= min_connection_strength; add_edge inserts an endpoint that is
\* no node yet, without attributes.
BuildGraph(users, connections, min_connection_strength) ==
    LET named == [i \in DOMAIN users |-> ToString(users[i])]
        kept == {key \in DOMAIN connections :
                    QuotientGeq(connections[key], min_connection_strength)}
        extra == {x \in UNION {{key[1], key[2]} : key \in kept} : x \notin Range(named)}
        extra_seq == [i \in 1..Cardinality(extra) |->
                         CHOOSE x \in extra :
                             Cardinality({y \in extra : StrRank(y) < StrRank(x)}) = i - 1]
    IN  [nodes |-> named \o extra_seq,
         named |-> Range(named),
         edges |-> kept,
         weight |-> [key \in kept |-> connections[key]]]

\* group by betweenness: > 0.1 high, > 0.05 medium, else low
InfluenceGroup(centrality) ==
    IF FracLess([num |-> 1, den |-> 10], centrality) THEN "high_influence"
    ELSE IF FracLess([num |-> 5, den |-> 100], centrality) THEN "medium_influence"
    ELSE "low_influence"

Round3(x) == RoundDiv(x.num * 1000, x.den)

NodeData(G, node_id) ==
    LET Data(user, centrality) ==
            [id |-> node_id,
             name |-> NodeName(user),
             group |-> InfluenceGroup(centrality),
             department |-> user.department,
             position |-> user.position,
             centrality_score |-> Round3(centrality),
             influence_score |-> eigenvector_centrality(G, node_id)]
    IN  Data(UserTable[CHOOSE u \in Users : ToString(u) = node_id],
             betweenness_centrality(G, node_id))

\* strength by weight: >= 0.7 strong, >= 0.4 medium, else weak
LinkData(G, key) ==
    LET weight == G.weight[key]
    IN  [source |-> key[1],
         target |-> key[2],
         weight |-> Round3(weight),
         strength |-> IF QuotientGeq(weight, [num |-> 7, den |-> 10]) THEN "strong"
                      ELSE IF QuotientGeq(weight, [num |-> 4, den |-> 10]) THEN "medium"
                      ELSE "weak"]

NoNetwork == [nodes |-> <<>>, links |-> {}, metadata |-> <<>>]

\* A gate that lets every survey type through.
AnyTypeAvailable(type) == TRUE

\* survey.survey_type in ["sociometry", "team_dynamics"]
NetworkAnalysisAvailable(type) == type \in {"sociometry", "team_dynamics"}

\* Returns [raised, value, connections, queried]: the exception raised (""
\* if none), the dict returned, what the nested
\* _analyze_sociometric_connections returned, and the tables read, in
\* order.  density and avg_clustering are in thousandths.
generate_network_visualization(type, rs, min_connection_strength) ==
    LET raise(e) == [raised |-> e, value |-> NoNetwork, connections |-> <<>>,
                     queried |-> <<"Survey", "Response", "User">>]
        Emit(connections, G) ==
            IF G.nodes = <<>>
            THEN [raise("NetworkXPointlessConcept") EXCEPT !.connections = connections]
            ELSE IF \E x \in Nodes(G) : x \notin G.named
            THEN [raise("KeyError") EXCEPT !.connections = connections]
            ELSE [raised |-> "",
                  value |-> [nodes |-> [i \in DOMAIN G.nodes |-> NodeData(G, G.nodes[i])],
                             links |-> {LinkData(G, key) : key \in G.edges},
                             metadata |->
                                 [total_nodes |-> Len(G.nodes),
                                  total_connections |-> Cardinality(G.edges),
                                  network_density |-> Round3(density(G)),
                                  avg_clustering |-> Round3(average_clustering(G)),
                                  connected_components |-> number_connected_components(G)]],
                  connections |-> connections,
                  queried |-> <<"Survey", "Response", "User">>]
        Build(analysed) ==
            IF analysed.raised # "" THEN raise(analysed.raised)
            ELSE Emit(analysed.connections,
                      BuildGraph(RespondentUsers(rs), analysed.connections,
                                 min_connection_strength))
    IN  IF ~NetworkAnalysisAvailable(type)
        THEN [raise("ValueError") EXCEPT !.queried = <<"Survey">>]
        ELSE IF rs = <<>>
        THEN [raised |-> "",
              value |-> [nodes |-> <<>>, links |-> {},
                         metadata |-> [message |-> "No responses available"]],
              connections |-> <<>>,
              queried |-> <<"Survey", "Response">>]
        ELSE Build(_analyze_sociometric_connections(rs, UserTable))

----------------------------------------------------------------------------
(* AnalyticsService.analyze_team_dynamics and the scores it derives.
   Scores are fractions; the report rounds them to hundredths. *)

\* dict.get(key, default)
Get(d, key, default) == IF key \in DOMAIN d THEN d[key] ELSE default

Round2(x) == RoundDiv(x.num * 100, x.den)

FracMin(a, b) == IF FracLess(b, a) THEN b ELSE a

Hundred == [num |-> 100, den |-> 1]

DefaultMinStrength == [num |-> 1, den |-> 10]

\* A cohesion score made of density and clustering alone.
CohesionWithoutComponents(metadata) ==
    LET d == Get(metadata, "network_density", 0)
        c == Get(metadata, "avg_clustering", 0)
    IN  [raised |-> "",
         value |-> FracMin([num |-> d * 50 + c * 30, den |-> 1000], Hundred)]

\* min(density * 50 + clustering * 30 + 20 / components, 100); the division
\* raises when components is 0.
_calculate_team_cohesion(metadata) ==
    LET d == Get(metadata, "network_density", 0)
        c == Get(metadata, "avg_clustering", 0)
        components == Get(metadata, "connected_components", 1)
    IN  IF components = 0 THEN [raised |-> "ZeroDivisionError", value |-> Hundred]
        ELSE [raised |-> "",
              value |-> FracMin([num |-> (d * 50 + c * 30) * components + 20000,
                                 den |-> 1000 * components], Hundred)]

\* min(mean(weight) * 60 + strong / total * 40, 100); 0 without links
_analyze_communication_patterns(network_data) ==
    LET links == network_data.links
        total_connections == Cardinality(links)
        strong_connections == Cardinality({l \in links : l.strength = "strong"})
        weights == SumSet(links, [l \in links |-> l.weight])
    IN  IF network_data.nodes = <<>> \/ links = {} THEN [num |-> 0, den |-> 1]
        ELSE FracMin([num |-> weights * 60 + strong_connections * 40000,
                      den |-> 1000 * total_connections], Hundred)

NodeDepartment(network_data, node_id) ==
    IF \E i \in DOMAIN network_data.nodes : network_data.nodes[i].id = node_id
    THEN (network_data.nodes[CHOOSE i \in DOMAIN network_data.nodes :
                                 network_data.nodes[i].id = node_id]).department
    ELSE ""

\* An index that counts every link whose two departments differ, a missing
\* department included.
CollaborationCountingEveryDifference(network_data) ==
    LET links == network_data.links
        cross == {l \in links : NodeDepartment(network_data, l.source)
                                    # NodeDepartment(network_data, l.target)}
    IN  IF network_data.nodes = <<>> \/ links = {} THEN [num |-> 0, den |-> 1]
        ELSE [num |-> Cardinality(cross) * 100, den |-> Cardinality(links)]

\* cross-department links / links * 100; 0 without nodes or links.  A link
\* counts when both departments are set (neither None nor "") and differ.
_calculate_collaboration_index(network_data) ==
    LET links == network_data.links
        cross == {l \in links :
                     LET source_dept == NodeDepartment(network_data, l.source)
                         target_dept == NodeDepartment(network_data, l.target)
                     IN  source_dept # "" /\ target_dept # "" /\ source_dept # target_dept}
    IN  IF network_data.nodes = <<>> \/ links = {} THEN [num |-> 0, den |-> 1]
        ELSE [num |-> Cardinality(cross) * 100, den |-> Cardinality(links)]

\* The links that leave a node: the target end is not counted.
SourceCount(network_data, node_id) ==
    Cardinality({l \in network_data.links : l.source = node_id})

\* connection_counts[link["source"]] += 1; connection_counts[link["target"]] += 1
ConnectionCount(network_data, node_id) ==
    Cardinality({l \in network_data.links : l.source = node_id})
    + Cardinality({l \in network_data.links : l.target = node_id})

\* the names of the nodes with fewer than 2 connections, in node order
_identify_isolated_members(network_data) ==
    LET Few(node) == ConnectionCount(network_data, node.id) < 2
        isolated == SelectSeq(network_data.nodes, Few)
    IN  [i \in DOMAIN isolated |-> isolated[i].name]

\* sorted(nodes, key=centrality_score, reverse=True): stable, descending
RECURSIVE SortByCentrality(_)
SortByCentrality(nodes) ==
    IF nodes = <<>> THEN <<>>
    ELSE LET i == CHOOSE k \in DOMAIN nodes :
                      /\ \A j \in DOMAIN nodes : nodes[j].centrality_score <= nodes[k].centrality_score
                      /\ \A j \in 1..(k - 1) : nodes[j].centrality_score < nodes[k].centrality_score
         IN  <<nodes[i]>> \o SortByCentrality(SubSeq(nodes, 1, i - 1) \o SubSeq(nodes, i + 1, Len(nodes)))

\* the names of the nodes of centrality_score > 0.05, highest first, top 5
_identify_key_connectors(nodes) ==
    LET High(node) == node.centrality_score > 50
        Top(picked) == [i \in 1..Min(Len(picked), 5) |-> picked[i].name]
    IN  Top(SelectSeq(SortByCentrality(nodes), High))

\* round(centrality * 0.6 + influence * 0.4, 3), in thousandths: six tenths
\* of one count of thousandths plus four tenths of another is never half way
\* between two thousandths.
LeadershipScore(node) == RoundDiv(node.centrality_score * 6 + node.influence_score * 4, 10)

\* sorted(leadership_scores.items(), key=score, reverse=True): stable,
\* descending
RECURSIVE SortByScore(_)
SortByScore(entries) ==
    IF entries = <<>> THEN <<>>
    ELSE LET i == CHOOSE k \in DOMAIN entries :
                      /\ \A j \in DOMAIN entries : entries[j].score <= entries[k].score
                      /\ \A j \in 1..(k - 1) : entries[j].score < entries[k].score
         IN  <<entries[i]>> \o SortByScore(SubSeq(entries, 1, i - 1)
                                            \o SubSeq(entries, i + 1, Len(entries)))

\* leadership_scores[name] = score for every node in turn: a dict keyed by
\* the display name, which keeps the place of a name's first node and the
\* score of its last one.  The five highest entries, as the sequence of the
\* items of the dict returned.
_identify_leadership_influence(nodes) ==
    LET IsFirst(i) == \A j \in 1..(i - 1) : nodes[j].name # nodes[i].name
        Last(name) == CHOOSE i \in DOMAIN nodes :
                          /\ nodes[i].name = name
                          /\ \A j \in (i + 1)..Len(nodes) : nodes[j].name # name
        Entry(node) == [name |-> node.name, score |-> LeadershipScore(nodes[Last(node.name)])]
        Items(firsts) == [k \in DOMAIN firsts |-> Entry(firsts[k])]
        Top(sorted_leaders) == SubSeq(sorted_leaders, 1, Min(Len(sorted_leaders), 5))
        FirstNodes(marked) == [k \in DOMAIN marked |-> marked[k].node]
        Marked == [i \in DOMAIN nodes |-> [node |-> nodes[i], first |-> IsFirst(i)]]
        KeepFirst(m) == m.first
    IN  Top(SortByScore(Items(FirstNodes(SelectSeq(Marked, KeepFirst)))))

\* Per department: 0 for fewer than two nodes, else the links inside the
\* department over the possible pairs, times 100, in hundredths.  {} without
\* nodes.
_analyze_department_connectivity(network_data) ==
    LET nodes == network_data.nodes
        departments == {nodes[i].department : i \in DOMAIN nodes}
        NodeIds(dept) == {nodes[i].id : i \in {j \in DOMAIN nodes : nodes[j].department = dept}}
        Internal(node_ids) ==
            Cardinality({l \in network_data.links :
                            l.source \in node_ids /\ l.target \in node_ids})
        Possible(node_ids) == (Cardinality(node_ids) * (Cardinality(node_ids) - 1)) \div 2
        Connectivity(node_ids) ==
            IF Cardinality(node_ids) < 2 THEN 0
            ELSE Round2([num |-> Internal(node_ids) * 100, den |-> Possible(node_ids)])
    IN  [dept \in departments |-> Connectivity(NodeIds(dept))]

\* ', '.join(names)
RECURSIVE Join(_)
Join(names) ==
    IF names = <<>> THEN ""
    ELSE IF Len(names) = 1 THEN names[1]
    ELSE names[1] \o ", " \o Join(Tail(names))

TeamBuildingItem == "Consider team building activities to improve overall cohesion"
ChannelsItem == "Implement regular communication channels and feedback loops"
IntegrationItem(isolated_members) ==
    "Focus on integrating isolated team members: "
        \o Join(SubSeq(isolated_members, 1, Min(Len(isolated_members), 3)))
PreserveItem == "Strong team cohesion detected - maintain current collaboration practices"
CheckInsItem == "Schedule regular check-ins to monitor team dynamics"

\* Four independent ifs, each appending one item, then the check-ins item.
_generate_team_recommendations(cohesion_score, communication_effectiveness, isolated_members) ==
    (IF FracLess(cohesion_score, [num |-> 50, den |-> 1])
     THEN <<TeamBuildingItem>> ELSE <<>>)
    \o (IF FracLess(communication_effectiveness, [num |-> 60, den |-> 1])
        THEN <<ChannelsItem>> ELSE <<>>)
    \o (IF Len(isolated_members) > 0
        THEN <<IntegrationItem(isolated_members)>> ELSE <<>>)
    \o (IF FracLess([num |-> 80, den |-> 1], cohesion_score)
        THEN <<PreserveItem>> ELSE <<>>)
    \o <<CheckInsItem>>

\* Returns [raised, value, network, connections, queried]: the exception
\* raised, the report (or the error dict), what the nested calls returned,
\* and the tables read, in order.
analyze_team_dynamics(type, rs) ==
    LET Report(network_data, cohesion) ==
            IF cohesion.raised # "" THEN [raised |-> cohesion.raised, value |-> <<>>]
            ELSE [raised |-> "",
                  value |->
                      [team_cohesion_score |-> Round2(cohesion.value),
                       communication_effectiveness |->
                           Round2(_analyze_communication_patterns(network_data)),
                       collaboration_index |->
                           Round2(_calculate_collaboration_index(network_data)),
                       leadership_influence |->
                           _identify_leadership_influence(network_data.nodes),
                       department_connectivity |->
                           _analyze_department_connectivity(network_data),
                       isolated_members |-> _identify_isolated_members(network_data),
                       key_connectors |-> _identify_key_connectors(network_data.nodes),
                       recommendations |->
                           _generate_team_recommendations(
                               cohesion.value,
                               _analyze_communication_patterns(network_data),
                               _identify_isolated_members(network_data))]]
        Analyse(net) ==
            [network |-> net.value, connections |-> net.connections,
             queried |-> <<"Survey">> \o net.queried]
            @@ IF net.raised # "" THEN [raised |-> net.raised, value |-> <<>>]
               ELSE IF net.value.nodes = <<>>
               THEN [raised |-> "", value |-> [error |-> "No data available for analysis"]]
               ELSE Report(net.value, _calculate_team_cohesion(net.value.metadata))
    IN  Analyse(generate_network_visualization(type, rs, DefaultMinStrength))

----------------------------------------------------------------------------
(* The response store: submit_survey_response (token, possibly anonymous)
   and submit_authenticated_response of app/routes/responses.py. *)

\* The other tables hold nothing while the analytics are exercised.
OtherTablesInit ==
    /\ accounts = <<>>
    /\ surveys = <<>>
    /\ requests = <<>>
    /\ survey_invitations = <<>>
    /\ payments = <<>>

NoResult == [op |-> "none", raised |-> "", value |-> <<>>,
             network |-> NoNetwork, connections |-> <<>>]

\* A respondent who has answered with a login or an invitation is refused
\* (409) and nothing is stored; an anonymous token carries no respondent_id
\* and is not checked.  A token that names a respondent but no invitation,
\* which the route does not check either, is left out.
SubmitResponse(respondent_id, answers) ==
    /\ Len(responses) < MaxResponses
    /\ IF respondent_id # None
          /\ \E i \in DOMAIN responses : responses[i].respondent_id = respondent_id
       THEN UNCHANGED responses
       ELSE responses' = Append(responses,
                [respondent_id |-> respondent_id, answers |-> answers])
    /\ result' = NoResult
    /\ UNCHANGED <<survey_type, total_invitations, snapshots, now>>
    /\ UNCHANGED other_tables

AnalyzeTeamDynamics ==
    /\ result' = [op |-> "analyze_team_dynamics"]
                     @@ analyze_team_dynamics(survey_type, responses)
    /\ UNCHANGED <<survey_type, total_invitations, responses, snapshots, now>>
    /\ UNCHANGED other_tables

GenerateNetworkVisualization(min_connection_strength) ==
    /\ result' = LET Out(net) ==
                         [op |-> "generate_network_visualization",
                          min_connection_strength |-> min_connection_strength,
                          network |-> net.value] @@ net
                 IN  Out(generate_network_visualization(survey_type, responses,
                                                        min_connection_strength))
    /\ UNCHANGED <<survey_type, total_invitations, responses, snapshots, now>>
    /\ UNCHANGED other_tables

----------------------------------------------------------------------------
(* AnalyticsService.generate_ai_insights, with the snapshot cache.  Survey 1
   is the survey whose responses the model stores; survey 2 is another
   sociometric survey, without invitations or responses.  Rates and scores
   are in hundredths. *)

Surveys == {1, 2}

ResponsesOf(survey_id) == IF survey_id = 1 THEN responses ELSE <<>>

InvitationsOf(survey_id) == IF survey_id = 1 THEN total_invitations ELSE 0

\* timedelta(hours=24): the life of a snapshot
CacheHours == 24

\* The metrics the insights read: response_rate = round(responses /
\* invitations * 100, 2), 0 without invitations.
calculate_survey_metrics(rs, invitations) ==
    [response_rate |-> IF invitations > 0
                       THEN RoundDiv(Len(rs) * 10000, invitations) ELSE 0,
     total_responses |-> Len(rs),
     total_invitations |-> invitations]

\* The three computations generate_ai_insights makes on a cache miss, in
\* order; the first exception ends them.  Returns [raised, calls, data]:
\* the exception, the methods called, and analysis_data.
AnalysisData(survey_id) ==
    LET Data(rs, metadata, team) ==
            [raised |-> team.raised,
             calls |-> <<"calculate_survey_metrics", "generate_network_visualization",
                         "analyze_team_dynamics">>,
             data |-> IF team.raised # "" THEN <<>>
                      ELSE [metrics |-> calculate_survey_metrics(rs, InvitationsOf(survey_id)),
                            network_summary |->
                                [total_nodes |-> Get(metadata, "total_nodes", 0),
                                 network_density |-> Get(metadata, "network_density", 0),
                                 connected_components |->
                                     Get(metadata, "connected_components", 0)],
                            team_dynamics |-> team.value]]
        Computed(rs, net) ==
            IF net.raised # ""
            THEN [raised |-> net.raised,
                  calls |-> <<"calculate_survey_metrics", "generate_network_visualization">>,
                  data |-> <<>>]
            ELSE Data(rs, net.value.metadata, analyze_team_dynamics(survey_type, rs))
        Of(rs) ==
            Computed(rs, generate_network_visualization(survey_type, rs, DefaultMinStrength))
    IN  Of(ResponsesOf(survey_id))

\* The rules applied when the enrichment is unavailable.
_generate_fallback_insights(data, utcnow) ==
    LET response_rate == Get(data.metrics, "response_rate", 0)
        cohesion == Get(data.team_dynamics, "team_cohesion_score", 0)
        communication == Get(data.team_dynamics, "communication_effectiveness", 0)
        When(cond, text) == IF cond THEN <<text>> ELSE <<>>
    IN  [insights |-> <<"Survey data reveals key patterns in team dynamics",
                        "Network analysis shows collaboration opportunities">>,
         recommendations |->
             When(response_rate < 4000, "Investigate barriers to survey participation")
             \o When(cohesion < 5000, "Implement team building initiatives")
             \o When(communication < 6000, "Establish regular communication channels"),
         risks |->
             When(response_rate < 4000, "Low response rate may indicate disengagement")
             \o When(cohesion < 5000, "Low team cohesion may affect collaboration")
             \o When(communication < 6000, "Communication effectiveness could be improved"),
         positives |->
             When(response_rate >= 7000, "High response rate indicates strong team engagement")
             \o When(cohesion >= 7000, "Strong team cohesion detected"),
         generated_at |-> utcnow,
         source |-> "automated_analysis"]

\* What the enrichment answers: the text is opaque, and is told apart by
\* the survey and the time of the call.
EnrichedInsights(survey_id, utcnow) ==
    [origin |-> "openai", survey_id |-> survey_id, generated_at |-> utcnow]

\* Snapshot rows found whatever their age.
CachedInsightsAnyAge(rows, survey_id, utcnow) ==
    {rows[i] : i \in {j \in DOMAIN rows :
                        /\ rows[j].survey_id = survey_id
                        /\ rows[j].snapshot_type = "insights"}}

\* select(AnalyticsSnapshot).where(survey_id == ..., snapshot_type ==
\* "insights", expires_at > utcnow()): the rows .first() may return.
CachedInsights(rows, survey_id, utcnow) ==
    {rows[i] : i \in {j \in DOMAIN rows :
                        /\ rows[j].survey_id = survey_id
                        /\ rows[j].snapshot_type = "insights"
                        /\ rows[j].expires_at > utcnow}}

\* An except branch that lets the exception of the enrichment through.
FailurePropagates(analysis_data, utcnow) ==
    [raised |-> "OpenAIError", value |-> <<>>]

\* except Exception: return self._generate_fallback_insights(analysis_data)
EnrichmentFailed(analysis_data, utcnow) ==
    [raised |-> "", value |-> _generate_fallback_insights(analysis_data, utcnow)]

Enrichment == {"answered", "raised", "commit_failed"}

\* A cache miss that stores the fallback as well when the enrichment fails.
RecomputeCachingFallback(survey_id, force_regenerate, enrichment, analysis) ==
    LET out(e, fields) ==
            [op |-> "generate_ai_insights", survey_id |-> survey_id,
             force_regenerate |-> force_regenerate, cached |-> FALSE,
             calls |-> analysis.calls, enrichment |-> e] @@ fields
        Data(e) == IF e = "answered" THEN EnrichedInsights(survey_id, now)
                   ELSE EnrichmentFailed(analysis.data, now).value
    IN  IF analysis.raised # ""
        THEN /\ result' = out("not_called", [raised |-> analysis.raised, value |-> <<>>])
             /\ UNCHANGED snapshots
        ELSE /\ Len(snapshots) < MaxSnapshots
             /\ snapshots' = Append(snapshots,
                    [survey_id |-> survey_id, snapshot_type |-> "insights",
                     data |-> Data(enrichment),
                     created_at |-> now, expires_at |-> now + CacheHours])
             /\ result' = out(enrichment, [raised |-> "", value |-> Data(enrichment)])
\* The cache miss: recompute, call the enrichment, store and return its
\* answer; on any exception of the call or of the commit, return the
\* fallback and store nothing.  What the three computations raise escapes.
Recompute(survey_id, force_regenerate, enrichment, analysis) ==
    LET out(e, fields) ==
            [op |-> "generate_ai_insights", survey_id |-> survey_id,
             force_regenerate |-> force_regenerate, cached |-> FALSE,
             calls |-> analysis.calls, enrichment |-> e] @@ fields
    IN  IF analysis.raised # ""
        THEN /\ result' = out("not_called", [raised |-> analysis.raised, value |-> <<>>])
             /\ UNCHANGED snapshots
        ELSE IF enrichment = "answered"
        THEN /\ Len(snapshots) < MaxSnapshots
             /\ snapshots' = Append(snapshots,
                    [survey_id |-> survey_id, snapshot_type |-> "insights",
                     data |-> EnrichedInsights(survey_id, now),
                     created_at |-> now, expires_at |-> now + CacheHours])
             /\ result' = out(enrichment,
                    [raised |-> "", value |-> EnrichedInsights(survey_id, now)])
        ELSE /\ result' = out(enrichment, EnrichmentFailed(analysis.data, now))
             /\ UNCHANGED snapshots

GenerateAiInsights(survey_id, force_regenerate, enrichment) ==
    /\ LET hits == CachedInsights(snapshots, survey_id, now)
       IN  IF ~force_regenerate /\ hits # {}
           THEN /\ \E cached_insights \in hits :
                       result' = [op |-> "generate_ai_insights", survey_id |-> survey_id,
                                  force_regenerate |-> force_regenerate, cached |-> TRUE,
                                  calls |-> <<>>, enrichment |-> "not_called",
                                  raised |-> "", value |-> cached_insights.data]
                /\ UNCHANGED snapshots
           ELSE Recompute(survey_id, force_regenerate, enrichment, AnalysisData(survey_id))
    /\ UNCHANGED <<survey_type, total_invitations, responses, now>>
    /\ UNCHANGED other_tables

\* Time passes.
Tick ==
    /\ now + TickHours <= MaxClock
    /\ now' = now + TickHours
    /\ result' = NoResult
    /\ UNCHANGED <<survey_type, total_invitations, responses, snapshots>>
    /\ UNCHANGED other_tables

Remaining == MaxNominations - StoreNominations(responses)
RemainingIrregular == MaxIrregular - StoreIrregular(responses)

Init ==
    /\ survey_type \in {"sociometry"}
    /\ total_invitations = 0
    /\ responses = <<>>
    /\ snapshots = <<>>
    /\ now = 0
    /\ OtherTablesInit
    /\ result = NoResult

Next ==
    \/ \E r \in Users, a \in AnswerValues(Remaining, RemainingIrregular) :
           SubmitResponse(r, <<a>>)
    \/ \E a \in AnswerValues(Remaining, RemainingIrregular - 1) :
           SubmitResponse(None, <<a>>)
    \/ AnalyzeTeamDynamics

Spec == Init /\ [][Next]_vars

\* Surveys of every type, whose members answer with a rating, a list or
\* weighted selections, analysed with the thresholds a caller may pass:
\* 0, the default 0.1, 0.5 and 1.0.
SurveyTypes == {"sociometry", "360", "enps", "team_dynamics"}

Thresholds ==
    {[num |-> 0, den |-> 1], DefaultMinStrength, [num |-> 1, den |-> 2],
     [num |-> 1, den |-> 1]}

NetworkAnswers(r) ==
    CASE r = 1 -> {Scalar, ListAnswer(<<IntId(2), IntId(3)>>),
                   SelAnswer(<<Selection(IntId(2), WNum(1)), Selection(IntId(2), WNum(1)),
                               Selection(IntId(3), WNum(10))>>)}
      [] r = 2 -> {Scalar, ListAnswer(<<IntId(1)>>),
                   SelAnswer(<<Selection(IntId(1), WNum(4))>>)}
      [] OTHER -> {Scalar, ListAnswer(<<IntId(2)>>)}

NetworkInit ==
    /\ survey_type \in SurveyTypes
    /\ total_invitations = 0
    /\ responses = <<>>
    /\ snapshots = <<>>
    /\ now = 0
    /\ OtherTablesInit
    /\ result = NoResult

NetworkNext ==
    \/ \E r \in Users : \E a \in NetworkAnswers(r) : SubmitResponse(r, <<a>>)
    \/ \E m \in Thresholds : GenerateNetworkVisualization(m)
    \/ AnalyzeTeamDynamics

NetworkSpec == NetworkInit /\ [][NetworkNext]_vars

\* The survey with its invitations sent, whose members answer with a rating
\* or by naming colleagues, while insights are asked for and time passes.
InvitationCounts == {0, 4}

InsightAnswers(r) ==
    CASE r = 1 -> {Scalar, ListAnswer(<<IntId(2)>>), ListAnswer(<<IntId(2), IntId(3)>>)}
      [] OTHER -> {Scalar}

InsightsInit ==
    /\ survey_type = "sociometry"
    /\ total_invitations \in InvitationCounts
    /\ responses = <<>>
    /\ snapshots = <<>>
    /\ now = 0
    /\ OtherTablesInit
    /\ result = NoResult

InsightsNext ==
    \/ \E r \in Users :
           \E a \in {x \in InsightAnswers(r) : Len(x.items) <= Remaining} :
               SubmitResponse(r, <<a>>)
    \/ \E survey_id \in Surveys, force_regenerate \in BOOLEAN, e \in Enrichment :
           GenerateAiInsights(survey_id, force_regenerate, e)
    \/ Tick

InsightsSpec == InsightsInit /\ [][InsightsNext]_vars

----------------------------------------------------------------------------
(* The collaboration index as a function of the network data: nodes of up
   to MaxNodes users whose department (Optional[str] in the User model) is
   set or not, and any set of links between them. *)

\* "" stands for a department that is None or empty: both are falsy.
Departments == {"", "Eng", "Ops"}

NodePairs(n) == {p \in (1..n) \X (1..n) : p[1] < p[2]}

NetworkInputs ==
    UNION {{[nodes |-> [i \in 1..n |-> [id |-> ToString(i), department |-> dept[i]]],
             links |-> {[source |-> ToString(p[1]), target |-> ToString(p[2])] : p \in pairs}] :
               dept \in [1..n -> Departments], pairs \in SUBSET NodePairs(n)} :
           n \in 0..MaxNodes}

ScoresInit ==
    /\ survey_type = "sociometry"
    /\ total_invitations = 0
    /\ responses = <<>>
    /\ snapshots = <<>>
    /\ now = 0
    /\ OtherTablesInit
    /\ result \in {[op |-> "input", network_data |-> network_data] :
                       network_data \in NetworkInputs}

CalculateCollaborationIndex ==
    /\ result.op = "input"
    /\ result' = [op |-> "_calculate_collaboration_index",
                  network_data |-> result.network_data,
                  value |-> _calculate_collaboration_index(result.network_data)]
    /\ UNCHANGED <<survey_type, total_invitations, responses, snapshots, now>>
    /\ UNCHANGED other_tables

ScoresNext == CalculateCollaborationIndex

ScoresSpec == ScoresInit /\ [][ScoresNext]_vars

----------------------------------------------------------------------------
(* AnalyticsService._calculate_engagement_score as a function of the rates,
   the mean response time in hours and the answers of the responses.  Rates
   and scores are exact fractions. *)

FracTimes(a, n, d) == [num |-> a.num * n, den |-> a.den * d]

\* The values of the answers dict that matter to "answer not in [None, "",
\* []]": the three that compare equal to an element of the list, and two
\* that do not.
QualityAnswers == {"None", "empty_str", "empty_list", "empty_dict", "value"}

IsEmptyAnswer(answer) == answer \in {"None", "empty_str", "empty_list"}

\* non_empty_answers / total_questions of one response
Completeness(answers) ==
    [num |-> Cardinality({j \in DOMAIN answers : ~IsEmptyAnswer(answers[j])}),
     den |-> Len(answers)]

RECURSIVE FracSumSeq(_)
FracSumSeq(fs) == IF fs = <<>> THEN [num |-> 0, den |-> 1]
                  ELSE FracAdd(Head(fs), FracSumSeq(Tail(fs)))

\* np.mean(quality_scores) * 10 over the responses that have answers; 0
\* when there is no response or none has an answer.
_calculate_response_quality_score(rs) ==
    LET HasAnswers(response) == Len(response.answers) > 0
        Mean(quality_scores) ==
            IF quality_scores = <<>> THEN [num |-> 0, den |-> 1]
            ELSE FracTimes(FracSumSeq(quality_scores), 10, Len(quality_scores))
        Scores(answered) == [i \in DOMAIN answered |-> Completeness(answered[i].answers)]
    IN  IF rs = <<>> THEN [num |-> 0, den |-> 1]
        ELSE Mean(Scores(SelectSeq(rs, HasAnswers)))

\* A speed score whose steps leave out their upper ends.
SpeedScoreBelowOnly(avg_response_time) ==
    IF avg_response_time < 24 THEN 20
    ELSE IF avg_response_time < 72 THEN 15
    ELSE IF avg_response_time < 168 THEN 10
    ELSE 5

\* 20 within 24 hours, 15 within 72, 10 within 168 (a week), else 5
SpeedScore(avg_response_time) ==
    IF avg_response_time <= 24 THEN 20
    ELSE IF avg_response_time <= 72 THEN 15
    ELSE IF avg_response_time <= 168 THEN 10
    ELSE 5

\* min(min(rate * 0.4, 40) + min(completion * 0.3, 30) + speed + quality, 100)
_calculate_engagement_score(response_rate, completion_rate, avg_response_time, rs) ==
    LET response_score == FracMin(FracTimes(response_rate, 4, 10), [num |-> 40, den |-> 1])
        completion_score == FracMin(FracTimes(completion_rate, 3, 10), [num |-> 30, den |-> 1])
        speed_score == [num |-> SpeedScore(avg_response_time), den |-> 1]
        quality_score == _calculate_response_quality_score(rs)
    IN  FracMin(FracAdd(FracAdd(response_score, completion_score),
                        FracAdd(speed_score, quality_score)), Hundred)

\* Rates in percent: more responses than invitations (anonymous links) give
\* a response rate above 100; completed invitations never exceed 100.
ResponseRates == {[num |-> 0, den |-> 1], [num |-> 100, den |-> 3], [num |-> 250, den |-> 1]}
CompletionRates == {[num |-> 0, den |-> 1], [num |-> 50, den |-> 1], [num |-> 100, den |-> 1]}

\* Mean hours between activation and submission, on both sides of each step.
ResponseTimes == {0, 24, 25, 72, 73, 168, 169}

ScoredResponses ==
    SeqsUpTo({[answers |-> a] : a \in SeqsUpTo(QualityAnswers, MaxAnswers)}, MaxScored)

EngagementInit ==
    /\ survey_type = "sociometry"
    /\ total_invitations = 0
    /\ responses = <<>>
    /\ snapshots = <<>>
    /\ now = 0
    /\ OtherTablesInit
    /\ result \in {[op |-> "input", response_rate |-> rr, completion_rate |-> cr,
                     avg_response_time |-> t, responses |-> rs] :
                       rr \in ResponseRates, cr \in CompletionRates,
                       t \in ResponseTimes, rs \in ScoredResponses}

CalculateEngagementScore ==
    /\ result.op = "input"
    /\ result' = [result EXCEPT !.op = "_calculate_engagement_score"]
                     @@ [value |-> _calculate_engagement_score(
                                       result.response_rate, result.completion_rate,
                                       result.avg_response_time, result.responses)]
    /\ UNCHANGED <<survey_type, total_invitations, responses, snapshots, now>>
    /\ UNCHANGED other_tables

EngagementNext == CalculateEngagementScore

EngagementSpec == EngagementInit /\ [][EngagementNext]_vars

----------------------------------------------------------------------------
(* Authentication: app/auth.py and the login route of app/routes/auth.py.
   A token is the JWT as the decoder sees it: its form, the key it was
   signed with, and its claims; exp is in minutes. *)

\* settings.access_token_expire_minutes, refresh_token_expire_days and
\* survey_token_expire_days
AccessTokenExpireMinutes == 30
RefreshTokenExpireDays == 30
SurveyTokenExpireDays == 30

\* jwt.encode(to_encode, settings.secret_key, algorithm=settings.algorithm)
Encode(to_encode) == [form |-> "jwt", key |-> "secret_key", claims |-> to_encode]

\* to_encode.update({"exp": expire, "type": "access"}) on a copy of data
create_access_token(data, utcnow) ==
    Encode([exp |-> utcnow * 60 + AccessTokenExpireMinutes, type |-> "access"] @@ data)

create_refresh_token(data, utcnow) ==
    Encode([exp |-> utcnow * 60 + RefreshTokenExpireDays * 24 * 60, type |-> "refresh"] @@ data)

create_survey_token(survey_id, respondent_id, invitation_id, utcnow) ==
    Encode([survey_id |-> survey_id, respondent_id |-> respondent_id,
            invitation_id |-> invitation_id, type |-> "survey",
            exp |-> utcnow * 60 + SurveyTokenExpireDays * 24 * 60])

\* A verification that does not look at the type of the token.
VerifyAnyType(token, expected_type, utcnow) ==
    IF \/ token.form # "jwt"
       \/ token.key # "secret_key"
       \/ token.claims.exp < utcnow * 60
    THEN [raised |-> "AuthException", detail |-> "Token validation failed", value |-> <<>>]
    ELSE [raised |-> "", detail |-> "", value |-> token.claims]

\* jwt.decode raises JWTError for a token that is not a JWT, that is not
\* signed with the secret key, or whose exp has passed; then the type claim
\* is compared with the expected type.
verify_token(token, expected_type, utcnow) ==
    IF \/ token.form # "jwt"
       \/ token.key # "secret_key"
       \/ token.claims.exp < utcnow * 60
    THEN [raised |-> "AuthException", detail |-> "Token validation failed", value |-> <<>>]
    ELSE IF token.claims.type # expected_type
    THEN [raised |-> "AuthException",
          detail |-> "Invalid token type. Expected " \o expected_type, value |-> <<>>]
    ELSE [raised |-> "", detail |-> "", value |-> token.claims]

\* select(User).where(User.email == email, User.is_active == True).first(),
\* then the password check; returns the id of the user, or None.  A hashed
\* password is shown by the password it was made from, "" for a user
\* without one.
authenticate_user(email, password) ==
    LET found == {id \in DOMAIN accounts :
                     accounts[id].email = email /\ accounts[id].is_active}
        Checked(user) ==
            IF user.hashed_password = "" THEN None
            ELSE IF user.hashed_password # password THEN None
            ELSE user.id
    IN  IF found = {} THEN None
        ELSE Checked(accounts[CHOOSE id \in found : \A other \in found : id <= other])

\* The login route: 401 without a user, 401 for a user that is not active,
\* else an access and a refresh token.
login(email, password) ==
    LET Tokens(user) ==
            [status |-> 200, detail |-> "",
             access_token |-> create_access_token(
                 [sub |-> ToString(user.id), email |-> user.email, role |-> user.role], now),
             refresh_token |-> create_refresh_token(
                 [sub |-> ToString(user.id), email |-> user.email], now)]
        Answer(user_id) ==
            IF user_id = None
            THEN [status |-> 401, detail |-> "Incorrect email or password"]
            ELSE IF ~accounts[user_id].is_active
            THEN [status |-> 401, detail |-> "Account is inactive"]
            ELSE Tokens(accounts[user_id])
    IN  Answer(authenticate_user(email, password))

AccountIds == {1, 2}

Emails == {"ann@example.com", "bob@example.com", "nobody@example.com"}

Passwords == {"password123", "wrong"}

\* Two users with a role, of whom either may be inactive or without a
\* password (an invited respondent).
AccountTables ==
    {[id \in AccountIds |->
         [id |-> id,
          email |-> IF id = 1 THEN "ann@example.com" ELSE "bob@example.com",
          role |-> IF id = 1 THEN "clientadmin" ELSE "respondent",
          hashed_password |-> hashed[id],
          is_active |-> active[id]]] :
       hashed \in [AccountIds -> {"password123", ""}], active \in [AccountIds -> BOOLEAN]}

\* What a client can present as a token: a token this service issued at
\* some hour up to now, such a token signed with another key, text that is
\* not a JWT, and the empty string.
IssueHours == {t \in {0, TickHours, 2 * TickHours} : t <= now}

IssuedTokens ==
    UNION {{create_access_token([sub |-> "1", email |-> "ann@example.com",
                                 role |-> "clientadmin"], t),
            create_access_token([sub |-> "1", type |-> "refresh"], t),
            create_refresh_token([sub |-> "1", email |-> "ann@example.com"], t),
            create_survey_token(1, 1, 1, t)} : t \in IssueHours}

PresentedTokens ==
    IssuedTokens
    \cup {[token EXCEPT !.key = "other_key"] : token \in IssuedTokens}
    \cup {[form |-> "malformed", key |-> "", claims |-> <<>>],
          [form |-> "empty", key |-> "", claims |-> <<>>]}

TokenTypes == {"access", "refresh", "survey"}

analytics_tables == <<survey_type, total_invitations, responses, snapshots>>

AuthInit ==
    /\ survey_type = "sociometry"
    /\ total_invitations = 0
    /\ responses = <<>>
    /\ snapshots = <<>>
    /\ now = 0
    /\ result = NoResult
    /\ accounts \in AccountTables
    /\ surveys = <<>>
    /\ requests = <<>>
    /\ survey_invitations = <<>>
    /\ payments = <<>>

Login(email, password) ==
    /\ result' = [op |-> "login", email |-> email, password |-> password]
                     @@ login(email, password)
    /\ UNCHANGED <<analytics_tables, now, other_tables>>

VerifyToken(token, expected_type) ==
    /\ result' = [op |-> "verify_token", token |-> token, expected_type |-> expected_type]
                     @@ verify_token(token, expected_type, now)
    /\ UNCHANGED <<analytics_tables, now, other_tables>>

AuthNext ==
    \/ \E email \in Emails, password \in Passwords : Login(email, password)
    \/ \E token \in PresentedTokens, expected_type \in TokenTypes :
           VerifyToken(token, expected_type)
    \/ Tick

AuthSpec == AuthInit /\ [][AuthNext]_vars

----------------------------------------------------------------------------
(* The life of a survey: the routes of app/routes/surveys.py and the two
   scheduled jobs.  A Survey row is [status, scheduled_at, activated_at,
   closed_at, auto_close_days, exists]; a deleted row stays in the sequence
   with exists = FALSE, so that identifiers are not used twice.  Times are
   in hours. *)

\* A datetime column that is NULL.
NoTime == -1

SurveyStatuses == {"draft", "scheduled", "active", "closed", "cancelled"}

Found(survey_id) == survey_id \in DOMAIN surveys /\ surveys[survey_id].exists

Answered(op, survey_id, status_code) ==
    [op |-> op, survey_id |-> survey_id, status_code |-> status_code]

\* create_survey: a new row, always a draft
CreateSurvey(scheduled_at, auto_close_days) ==
    /\ Len(surveys) < MaxSurveys
    /\ surveys' = Append(surveys,
           [status |-> "draft", scheduled_at |-> scheduled_at, activated_at |-> NoTime,
            closed_at |-> NoTime, auto_close_days |-> auto_close_days, exists |-> TRUE])
    /\ result' = Answered("create_survey", Len(surveys) + 1, 200)
    /\ UNCHANGED <<analytics_tables, now, accounts, requests, survey_invitations, payments>>

\* An update that is written whatever the status of the survey.
UpdateAnySurvey(survey_id, update_dict) ==
    /\ surveys' = [surveys EXCEPT ![survey_id] = update_dict @@ @]
    /\ result' = Answered("update_survey", survey_id, 200)

\* update_survey: 400 for an active or closed survey, else setattr for
\* every field of SurveyUpdate that the request sets, status included
UpdateDraftSurvey(survey_id, update_dict) ==
    IF surveys[survey_id].status \in {"active", "closed"}
    THEN /\ result' = Answered("update_survey", survey_id, 400)
         /\ UNCHANGED surveys
    ELSE /\ surveys' = [surveys EXCEPT ![survey_id] = update_dict @@ @]
         /\ result' = Answered("update_survey", survey_id, 200)

UpdateSurvey(survey_id, update_dict) ==
    /\ IF ~Found(survey_id)
       THEN /\ result' = Answered("update_survey", survey_id, 404)
            /\ UNCHANGED surveys
       ELSE UpdateDraftSurvey(survey_id, update_dict)
    /\ UNCHANGED <<analytics_tables, now, accounts, requests, survey_invitations, payments>>

\* activate_survey: only a draft; the status is committed before the
\* invitations are sent, so a failure of the sending (500) leaves it active
ActivateSurvey(survey_id, sending_fails) ==
    /\ IF ~Found(survey_id)
       THEN /\ result' = Answered("activate_survey", survey_id, 404)
            /\ UNCHANGED surveys
       ELSE IF surveys[survey_id].status # "draft"
       THEN /\ result' = Answered("activate_survey", survey_id, 400)
            /\ UNCHANGED surveys
       ELSE /\ surveys' = [surveys EXCEPT ![survey_id].status = "active",
                                          ![survey_id].activated_at = now]
            /\ result' = Answered("activate_survey", survey_id,
                                  IF sending_fails THEN 500 ELSE 200)
    /\ UNCHANGED <<analytics_tables, now, accounts, requests, survey_invitations, payments>>

\* close_survey: only an active survey
CloseSurvey(survey_id) ==
    /\ IF ~Found(survey_id)
       THEN /\ result' = Answered("close_survey", survey_id, 404)
            /\ UNCHANGED surveys
       ELSE IF surveys[survey_id].status # "active"
       THEN /\ result' = Answered("close_survey", survey_id, 400)
            /\ UNCHANGED surveys
       ELSE /\ surveys' = [surveys EXCEPT ![survey_id].status = "closed",
                                          ![survey_id].closed_at = now]
            /\ result' = Answered("close_survey", survey_id, 200)
    /\ UNCHANGED <<analytics_tables, now, accounts, requests, survey_invitations, payments>>

\* delete_survey: only a draft
DeleteSurvey(survey_id) ==
    /\ IF ~Found(survey_id)
       THEN /\ result' = Answered("delete_survey", survey_id, 404)
            /\ UNCHANGED surveys
       ELSE IF surveys[survey_id].status # "draft"
       THEN /\ result' = Answered("delete_survey", survey_id, 400)
            /\ UNCHANGED surveys
       ELSE /\ surveys' = [surveys EXCEPT ![survey_id].exists = FALSE]
            /\ result' = Answered("delete_survey", survey_id, 200)
    /\ UNCHANGED <<analytics_tables, now, accounts, requests, survey_invitations, payments>>

\* The active surveys with activated_at set whose auto_close_days have
\* passed since the activation.
Expired(survey) ==
    /\ survey.exists
    /\ survey.status = "active"
    /\ survey.activated_at # NoTime
    /\ now >= survey.activated_at + survey.auto_close_days * 24

\* SurveyService.auto_close_expired_surveys
AutoCloseExpiredSurveys ==
    /\ surveys' = [i \in DOMAIN surveys |->
                      IF Expired(surveys[i])
                      THEN [surveys[i] EXCEPT !.status = "closed", !.closed_at = now]
                      ELSE surveys[i]]
    /\ result' = [op |-> "auto_close_expired_surveys",
                  closed_count |-> Cardinality({i \in DOMAIN surveys : Expired(surveys[i])})]
    /\ UNCHANGED <<analytics_tables, now, accounts, requests, survey_invitations, payments>>

\* status == SCHEDULED and scheduled_at <= utcnow(): NULL compares as unknown
Due(survey) ==
    /\ survey.exists
    /\ survey.status = "scheduled"
    /\ survey.scheduled_at # NoTime
    /\ survey.scheduled_at <= now

\* SchedulerService.process_scheduled_surveys: status and activated_at are
\* set together and committed at the end, whether or not the sending of
\* the invitations failed
ProcessScheduledSurveys ==
    /\ surveys' = [i \in DOMAIN surveys |->
                      IF Due(surveys[i])
                      THEN [surveys[i] EXCEPT !.status = "active", !.activated_at = now]
                      ELSE surveys[i]]
    /\ result' = [op |-> "process_scheduled_surveys",
                  processed |-> Cardinality({i \in DOMAIN surveys : Due(surveys[i])})]
    /\ UNCHANGED <<analytics_tables, now, accounts, requests, survey_invitations, payments>>

\* What a request can set: a start in twelve hours or none, and closing at
\* once or after a day.
ScheduleTimes == {NoTime, TickHours}
AutoCloseDays == {0, 1}

\* update_data.model_dump(exclude_unset=True): a status, a scheduled_at,
\* a number of auto_close_days, or a status with a scheduled_at
UpdateDicts ==
    {[status |-> st] : st \in SurveyStatuses}
    \cup {[scheduled_at |-> t] : t \in ScheduleTimes}
    \cup {[auto_close_days |-> d] : d \in AutoCloseDays}
    \cup {[status |-> "scheduled", scheduled_at |-> TickHours]}

SurveyIds == 1..MaxSurveys

LifecycleInit ==
    /\ survey_type = "sociometry"
    /\ total_invitations = 0
    /\ responses = <<>>
    /\ snapshots = <<>>
    /\ now = 0
    /\ result = NoResult
    /\ accounts = <<>>
    /\ surveys = <<>>
    /\ requests = <<>>
    /\ survey_invitations = <<>>
    /\ payments = <<>>

LifecycleNext ==
    \/ \E t \in ScheduleTimes, d \in AutoCloseDays : CreateSurvey(t, d)
    \/ \E id \in SurveyIds, update_dict \in UpdateDicts : UpdateSurvey(id, update_dict)
    \/ \E id \in SurveyIds, sending_fails \in BOOLEAN : ActivateSurvey(id, sending_fails)
    \/ \E id \in SurveyIds : CloseSurvey(id)
    \/ \E id \in SurveyIds : DeleteSurvey(id)
    \/ AutoCloseExpiredSurveys
    \/ ProcessScheduledSurveys
    \/ Tick

LifecycleSpec == LifecycleInit /\ [][LifecycleNext]_vars

----------------------------------------------------------------------------
(* Submission of responses: app/routes/responses.py.  The server processes
   share the database and nothing else, and each handles one request at a
   time.  A handler reads and decides first and writes with its commit at
   the end, so a request is two steps, its reads with their checks and its
   commit, and the steps of requests in different processes interleave.
   requests[w] is the request that process w is handling.  A SurveyInvitation
   row is [survey_id, respondent_id, token, expires_at, sent_at, opened_at,
   completed_at, reminder_count]; its id is its index. *)

\* Server processes that serve the application against one database.
Workers == 2

Idle == [pc |-> "idle"]

\* SurveyService._create_survey_invitation: the row after its second commit,
\* with the token that carries the id of the invitation
_create_survey_invitation(id, survey_id, user_id, utcnow) ==
    [survey_id |-> survey_id, respondent_id |-> user_id,
     token |-> create_survey_token(survey_id, user_id, id, utcnow),
     expires_at |-> utcnow + SurveyTokenExpireDays * 24,
     sent_at |-> NoTime, opened_at |-> NoTime, completed_at |-> NoTime,
     reminder_count |-> 0]

\* verify_survey_token: the payload of a survey token; a token that names an
\* invitation needs the invitation to exist for the survey and not to have
\* expired.  opened is the set of invitations whose opened_at it sets.
verify_survey_token(token, utcnow) ==
    LET Matching(payload) ==
            {id \in DOMAIN survey_invitations :
                /\ id = payload.invitation_id
                /\ survey_invitations[id].survey_id = payload.survey_id
                /\ survey_invitations[id].expires_at > utcnow}
        Refused(detail) ==
            [raised |-> "AuthException", detail |-> detail, value |-> <<>>, opened |-> {}]
        Checked(payload) ==
            IF payload.survey_id = None THEN Refused("Invalid survey token")
            ELSE IF payload.invitation_id = None
            THEN [raised |-> "", detail |-> "", value |-> payload, opened |-> {}]
            ELSE IF Matching(payload) = {} THEN Refused("Invalid or expired invitation")
            ELSE [raised |-> "", detail |-> "", value |-> payload,
                  opened |-> {id \in Matching(payload) :
                                 survey_invitations[id].opened_at = NoTime}]
        Decoded(v) == IF v.raised # "" THEN Refused(v.detail) ELSE Checked(v.value)
    IN  Decoded(verify_token(token, "survey", utcnow))

\* get_current_user: the active user that the sub claim of an access token
\* names, or None
get_current_user(token, utcnow) ==
    LET Named(payload) ==
            {id \in DOMAIN accounts :
                ToString(id) = payload.sub /\ accounts[id].is_active}
        Decoded(v) ==
            IF v.raised # "" THEN None
            ELSE IF "sub" \notin DOMAIN v.value THEN None
            ELSE IF Named(v.value) = {} THEN None
            ELSE CHOOSE id \in Named(v.value) : TRUE
    IN  Decoded(verify_token(token, "access", utcnow))

\* verify_organization_access
verify_organization_access(org_id, current_user) ==
    accounts[current_user].role = "superadmin" \/ accounts[current_user].org_id = org_id

\* An answer is shown by its Python type and its value.
IntAnswer(n) == [type |-> "int", value |-> n]
StrAnswer(s) == [type |-> "str", value |-> s]

\* _validate_survey_answers: without questions in the criteria every answer
\* is accepted; else every required question is answered, a rating is a
\* number and a choice is one of the options
_validate_survey_answers(answers, survey) ==
    LET expected_questions == survey.criteria.questions
        Missing == {i \in DOMAIN expected_questions :
                       /\ expected_questions[i].required
                       /\ expected_questions[i].id \notin DOMAIN answers}
        Definition(question_id) ==
            {i \in DOMAIN expected_questions : expected_questions[i].id = question_id}
        BadFormat(question_id, q) ==
            IF q.type = "rating" THEN answers[question_id].type \notin {"int", "float"}
            ELSE IF q.type = "choice" THEN answers[question_id] \notin Range(q.options)
            ELSE FALSE
        Malformed == {question_id \in DOMAIN answers :
                         /\ Definition(question_id) # {}
                         /\ BadFormat(question_id,
                               expected_questions[CHOOSE i \in Definition(question_id) :
                                   \A j \in Definition(question_id) : i <= j])}
    IN  IF expected_questions = <<>> THEN [is_valid |-> TRUE, errors |-> 0]
        ELSE [is_valid |-> Missing = {} /\ Malformed = {},
              errors |-> Cardinality(Missing) + Cardinality(Malformed)]

\* select(Response).where(survey_id == ..., respondent_id == ...).first()
existing_response(survey_id, respondent_id) ==
    \E i \in DOMAIN responses :
        /\ responses[i].survey_id = survey_id
        /\ responses[i].respondent_id = respondent_id

HttpAnswer(op, status_code, detail) ==
    [op |-> op, status_code |-> status_code, detail |-> detail]

Pending(handler, survey_id, respondent_id, invitation_id, answers) ==
    [pc |-> "commit", handler |-> handler, survey_id |-> survey_id,
     respondent_id |-> respondent_id, invitation_id |-> invitation_id,
     answers |-> answers]

\* Responses stored and pending in the runs of the submission routes.
MaxSubmitted == 2

RoomForResponse ==
    Len(responses) + Cardinality({w \in DOMAIN requests : requests[w] # Idle}) < MaxSubmitted

\* "if respondent_id and invitation_id:" and the select of an existing
\* response; the table is read, no lock is taken
DuplicateCheck(payload) ==
    /\ payload.respondent_id # None
    /\ payload.invitation_id # None
    /\ existing_response(payload.survey_id, payload.respondent_id)

\* submit_survey_response up to the creation of the Response: the checks in
\* the order of the code, each with its status
SurveyResponseChecks(payload, answers) ==
    IF ~Found(payload.survey_id)
    THEN [status_code |-> 404, detail |-> "Survey not found"]
    ELSE IF surveys[payload.survey_id].status # "active"
    THEN [status_code |-> 400, detail |-> "Survey is not currently active"]
    ELSE IF DuplicateCheck(payload)
    THEN [status_code |-> 409, detail |-> "Response already submitted for this survey"]
    ELSE IF ~_validate_survey_answers(answers, surveys[payload.survey_id]).is_valid
    THEN [status_code |-> 400, detail |-> "Invalid answers"]
    ELSE [status_code |-> 200, detail |-> ""]

SubmitSurveyResponse(w, token, answers) ==
    /\ requests[w] = Idle
    /\ RoomForResponse
    /\ LET Opened(v) ==
               [id \in DOMAIN survey_invitations |->
                   IF id \in v.opened
                   THEN [survey_invitations[id] EXCEPT !.opened_at = now]
                   ELSE survey_invitations[id]]
           Decide(v, checks) ==
               IF checks.status_code # 200
               THEN /\ result' = HttpAnswer("submit_survey_response",
                                            checks.status_code, checks.detail)
                    /\ UNCHANGED requests
               ELSE /\ requests' = [requests EXCEPT ![w] =
                                       Pending("submit_survey_response", v.value.survey_id,
                                               v.value.respondent_id,
                                               v.value.invitation_id, answers)]
                    /\ UNCHANGED result
           Handle(v) ==
               /\ survey_invitations' = Opened(v)
               /\ IF v.raised # ""
                  THEN /\ result' = HttpAnswer("submit_survey_response", 401, v.detail)
                       /\ UNCHANGED requests
                  ELSE Decide(v, SurveyResponseChecks(v.value, answers))
       IN  Handle(verify_survey_token(token, now))
    /\ UNCHANGED <<analytics_tables, now, accounts, surveys, payments>>

\* session.add(response), invitation.completed_at, session.commit()
CommitSurveyResponse(w) ==
    /\ requests[w] # Idle
    /\ requests[w].handler = "submit_survey_response"
    /\ responses' = Append(responses,
           [survey_id |-> requests[w].survey_id,
            respondent_id |-> requests[w].respondent_id,
            invitation_id |-> requests[w].invitation_id,
            answers |-> requests[w].answers, submitted_at |-> now])
    /\ survey_invitations' =
           [id \in DOMAIN survey_invitations |->
               IF requests[w].invitation_id # None /\ id = requests[w].invitation_id
               THEN [survey_invitations[id] EXCEPT !.completed_at = now]
               ELSE survey_invitations[id]]
    /\ result' = [response_id |-> Len(responses) + 1,
                  survey_id |-> requests[w].survey_id,
                  respondent_id |-> requests[w].respondent_id]
                 @@ HttpAnswer("submit_survey_response", 200,
                               "Response submitted successfully")
    /\ requests' = [requests EXCEPT ![w] = Idle]
    /\ UNCHANGED <<survey_type, total_invitations, snapshots, now, accounts, surveys, payments>>

\* submit_authenticated_response up to the creation of the Response
AuthenticatedResponseChecks(survey_id, current_user, answers) ==
    IF ~Found(survey_id)
    THEN [status_code |-> 404, detail |-> "Survey not found"]
    ELSE IF ~verify_organization_access(surveys[survey_id].org_id, current_user)
    THEN [status_code |-> 403, detail |-> "Access denied to this organization"]
    ELSE IF surveys[survey_id].status # "active"
    THEN [status_code |-> 400, detail |-> "Survey is not currently active"]
    ELSE IF existing_response(survey_id, current_user)
    THEN [status_code |-> 409, detail |-> "Response already submitted for this survey"]
    ELSE IF ~_validate_survey_answers(answers, surveys[survey_id]).is_valid
    THEN [status_code |-> 400, detail |-> "Invalid answers"]
    ELSE [status_code |-> 200, detail |-> ""]

SubmitAuthenticatedResponse(w, token, survey_id, answers) ==
    /\ requests[w] = Idle
    /\ RoomForResponse
    /\ LET Decide(current_user, checks) ==
               IF checks.status_code # 200
               THEN /\ result' = HttpAnswer("submit_authenticated_response",
                                            checks.status_code, checks.detail)
                    /\ UNCHANGED requests
               ELSE /\ requests' = [requests EXCEPT ![w] =
                                       Pending("submit_authenticated_response", survey_id,
                                               current_user, None, answers)]
                    /\ UNCHANGED result
           Handle(current_user) ==
               IF current_user = None
               THEN /\ result' = HttpAnswer("submit_authenticated_response", 401,
                                            "Could not validate credentials")
                    /\ UNCHANGED <<requests, accounts>>
               ELSE /\ accounts' = [accounts EXCEPT ![current_user].last_login = now]
                    /\ Decide(current_user,
                              AuthenticatedResponseChecks(survey_id, current_user, answers))
       IN  Handle(get_current_user(token, now))
    /\ UNCHANGED <<analytics_tables, now, surveys, survey_invitations, payments>>

\* session.add(response), session.commit()
CommitAuthenticatedResponse(w) ==
    /\ requests[w] # Idle
    /\ requests[w].handler = "submit_authenticated_response"
    /\ responses' = Append(responses,
           [survey_id |-> requests[w].survey_id,
            respondent_id |-> requests[w].respondent_id,
            invitation_id |-> None,
            answers |-> requests[w].answers, submitted_at |-> now])
    /\ result' = [response_id |-> Len(responses) + 1,
                  survey_id |-> requests[w].survey_id,
                  respondent_id |-> requests[w].respondent_id]
                 @@ HttpAnswer("submit_authenticated_response", 200,
                               "Response submitted successfully")
    /\ requests' = [requests EXCEPT ![w] = Idle]
    /\ UNCHANGED <<survey_type, total_invitations, snapshots, now, accounts, surveys,
                   survey_invitations, payments>>

\* One required rating question.
RatingCriteria == [questions |-> <<[id |-> "q1", required |-> TRUE, type |-> "rating"]>>]

\* Answers a client submits: the rating, text for the rating, and an
\* answer to another question only.
SubmittedAnswers ==
    {[q1 |-> IntAnswer(4)], [q1 |-> StrAnswer("four")], [q2 |-> IntAnswer(4)]}

\* Two active respondents, the second of another organization.
RespondentTable ==
    [id \in AccountIds |->
        [id |-> id, role |-> "respondent", is_active |-> TRUE, last_login |-> NoTime,
         org_id |-> id]]

\* The hour at which the invitations were made: so long ago that they
\* expire at the next tick.
InvitationHour == TickHours - SurveyTokenExpireDays * 24

\* Survey tokens of the stored invitations, and an access token.
SurveyTokens ==
    {survey_invitations[id].token : id \in DOMAIN survey_invitations}
    \cup {create_access_token([sub |-> "1"], now)}

\* Access tokens issued by a login in this hour, and a refresh token.
AccessTokens ==
    {create_access_token([sub |-> ToString(id)], now) : id \in AccountIds}
    \cup {create_refresh_token([sub |-> "1"], now)}

SubmissionInit ==
    /\ survey_type = "sociometry"
    /\ total_invitations = 0
    /\ responses = <<>>
    /\ snapshots = <<>>
    /\ now = 0
    /\ result = NoResult
    /\ accounts = RespondentTable
    /\ surveys = <<[status |-> "active", scheduled_at |-> NoTime, activated_at |-> 0,
                    closed_at |-> NoTime, auto_close_days |-> 1, exists |-> TRUE,
                    org_id |-> 1, criteria |-> RatingCriteria]>>
    /\ requests = [w \in 1..Workers |-> Idle]
    /\ survey_invitations =
           [id \in {a \in AccountIds : accounts[a].org_id = 1} |->
               [_create_survey_invitation(id, 1, id, InvitationHour)
                    EXCEPT !.sent_at = InvitationHour]]
    /\ payments = <<>>

SubmissionNext ==
    \/ \E w \in 1..Workers, token \in SurveyTokens, answers \in SubmittedAnswers :
           SubmitSurveyResponse(w, token, answers)
    \/ \E w \in 1..Workers : CommitSurveyResponse(w)
    \/ \E w \in 1..Workers, token \in AccessTokens, id \in SurveyIds,
          answers \in SubmittedAnswers :
           SubmitAuthenticatedResponse(w, token, id, answers)
    \/ \E w \in 1..Workers : CommitAuthenticatedResponse(w)
    \/ CloseSurvey(1)
    \/ Tick

SubmissionSpec == SubmissionInit /\ [][SubmissionNext]_vars

----------------------------------------------------------------------------
(* Invitations and reminders: SurveyService.send_survey_invitations and
   send_survey_reminders of app/services/survey_service.py.  emails[u] tells
   whether the email service delivers the message to user u (it returns
   False when it does not). *)

\* select(User) of the organization of the survey, active, with the role
\* of a respondent; "if user_ids:" sends to everyone for an empty list
TargetUsers(survey, user_ids) ==
    {u \in DOMAIN accounts :
        /\ user_ids # {} => u \in user_ids
        /\ accounts[u].org_id = survey.org_id
        /\ accounts[u].is_active
        /\ accounts[u].role = "respondent"}

\* select(SurveyInvitation).where(survey_id, respondent_id).first()
ExistingInvitation(rows, survey_id, user_id) ==
    {id \in DOMAIN rows :
        rows[id].survey_id = survey_id /\ rows[id].respondent_id = user_id}

\* One pass of the loop of send_survey_invitations: an existing invitation
\* has sent_at and reminder_count reset, a missing one is created; sent_at
\* is set when the email was delivered.
InviteUser(rows, survey_id, user_id, success, utcnow) ==
    LET existing == ExistingInvitation(rows, survey_id, user_id)
        Prepared ==
            IF existing # {}
            THEN [rows EXCEPT ![CHOOSE id \in existing : \A other \in existing : id <= other] =
                     [@ EXCEPT !.sent_at = NoTime, !.reminder_count = 0]]
            ELSE Append(rows, _create_survey_invitation(Len(rows) + 1, survey_id,
                                                        user_id, utcnow))
        Target == IF existing # {}
                  THEN CHOOSE id \in existing : \A other \in existing : id <= other
                  ELSE Len(rows) + 1
    IN  IF success
        THEN [Prepared EXCEPT ![Target].sent_at = utcnow]
        ELSE Prepared

RECURSIVE InviteUsers(_, _, _, _, _)
InviteUsers(rows, survey_id, user_seq, emails, utcnow) ==
    IF user_seq = <<>> THEN rows
    ELSE InviteUsers(InviteUser(rows, survey_id, Head(user_seq),
                                emails[Head(user_seq)], utcnow),
                     survey_id, Tail(user_seq), emails, utcnow)

send_survey_invitations(survey_id, user_ids, emails, utcnow) ==
    IF ~Found(survey_id)
    THEN [raised |-> "ValueError", rows |-> survey_invitations, sent |-> 0, failed |-> 0,
          total_users |-> 0]
    ELSE LET Count(users) ==
                 [raised |-> "",
                  rows |-> InviteUsers(survey_invitations, survey_id, SortedSeq(users),
                                       emails, utcnow),
                  sent |-> Cardinality({u \in users : emails[u]}),
                  failed |-> Cardinality({u \in users : ~emails[u]}),
                  total_users |-> Cardinality(users)]
         IN  Count(TargetUsers(surveys[survey_id], user_ids))

\* The invitations that send_survey_reminders selects: of the survey, not
\* completed, sent, and not expired.
Incomplete(invitation, survey_id, utcnow) ==
    /\ invitation.survey_id = survey_id
    /\ invitation.completed_at = NoTime
    /\ invitation.sent_at # NoTime
    /\ invitation.expires_at > utcnow

\* A reminder that is due whatever the number of reminders sent before.
DueWithoutLimit(invitation, survey, utcnow) ==
    /\ (utcnow - invitation.sent_at) \div 24 >= survey.reminder_days
    /\ invitation.respondent_id \in DOMAIN accounts
\* days_since_sent >= survey.reminder_days and invitation.reminder_count < 2,
\* and the user of the invitation exists
ReminderDue(invitation, survey, utcnow) ==
    /\ (utcnow - invitation.sent_at) \div 24 >= survey.reminder_days
    /\ invitation.reminder_count < 2
    /\ invitation.respondent_id \in DOMAIN accounts

send_survey_reminders(survey_id, emails, utcnow) ==
    IF ~Found(survey_id)
    THEN [raised |-> "ValueError", rows |-> survey_invitations, sent |-> 0, failed |-> 0]
    ELSE IF ~surveys[survey_id].reminder_enabled
    THEN [raised |-> "", rows |-> survey_invitations, sent |-> 0, failed |-> 0]
    ELSE LET Tried == {id \in DOMAIN survey_invitations :
                          /\ Incomplete(survey_invitations[id], survey_id, utcnow)
                          /\ ReminderDue(survey_invitations[id], surveys[survey_id], utcnow)}
             Delivered(id) == emails[survey_invitations[id].respondent_id]
         IN  [raised |-> "",
              rows |-> [id \in DOMAIN survey_invitations |->
                           IF id \in Tried /\ Delivered(id)
                           THEN [survey_invitations[id] EXCEPT !.reminder_count = @ + 1]
                           ELSE survey_invitations[id]],
              sent |-> Cardinality({id \in Tried : Delivered(id)}),
              failed |-> Cardinality({id \in Tried : ~Delivered(id)})]

SendSurveyInvitations(survey_id, user_ids, emails) ==
    /\ LET Done(out) ==
               /\ survey_invitations' = out.rows
               /\ result' = [op |-> "send_survey_invitations", survey_id |-> survey_id,
                             user_ids |-> user_ids, emails |-> emails, raised |-> out.raised,
                             sent |-> out.sent, failed |-> out.failed,
                             total_users |-> out.total_users]
       IN  Done(send_survey_invitations(survey_id, user_ids, emails, now))
    /\ UNCHANGED <<analytics_tables, now, accounts, surveys, requests, payments>>

SendSurveyReminders(survey_id, emails) ==
    /\ LET Done(out) ==
               /\ survey_invitations' = out.rows
               /\ result' = [op |-> "send_survey_reminders", survey_id |-> survey_id,
                             emails |-> emails, raised |-> out.raised,
                             sent |-> out.sent, failed |-> out.failed]
       IN  Done(send_survey_reminders(survey_id, emails, now))
    /\ UNCHANGED <<analytics_tables, now, accounts, surveys, requests, payments>>

\* Two active respondents of the organization of the survey.
TeamTable ==
    [id \in AccountIds |->
        [id |-> id, role |-> "respondent", is_active |-> TRUE, last_login |-> NoTime,
         org_id |-> 1]]

\* Survey.reminder_days of the surveys of this section.
ReminderDays == {0, 1}

EmailOutcomes == [AccountIds -> BOOLEAN]

\* An active survey; respondent 1 may have an invitation that was sent
\* long ago and expires at the next tick, and may have answered it.
InvitationInit ==
    /\ survey_type = "sociometry"
    /\ total_invitations = 0
    /\ responses = <<>>
    /\ snapshots = <<>>
    /\ now = 0
    /\ result = NoResult
    /\ accounts = TeamTable
    /\ \E enabled \in BOOLEAN, days \in ReminderDays :
           surveys = <<[status |-> "active", scheduled_at |-> NoTime, activated_at |-> 0,
                        closed_at |-> NoTime, auto_close_days |-> 1, exists |-> TRUE,
                        org_id |-> 1, criteria |-> RatingCriteria,
                        reminder_enabled |-> enabled, reminder_days |-> days]>>
    /\ requests = <<>>
    /\ survey_invitations \in
           {<<>>} \cup
           {<<[_create_survey_invitation(1, 1, 1, InvitationHour)
                  EXCEPT !.sent_at = InvitationHour, !.completed_at = completed_at]>> :
              completed_at \in {NoTime, InvitationHour}}
    /\ payments = <<>>

InvitationNext ==
    \/ \E id \in SurveyIds, user_ids \in SUBSET AccountIds, emails \in EmailOutcomes :
           SendSurveyInvitations(id, user_ids, emails)
    \/ \E id \in SurveyIds, emails \in EmailOutcomes : SendSurveyReminders(id, emails)
    \/ Tick

InvitationSpec == InvitationInit /\ [][InvitationNext]_vars

----------------------------------------------------------------------------
(* Payments: PaymentService of app/services/payment_service.py.  A Payment
   row is [status, amount_cents, stripe_session_id, stripe_payment_intent_id,
   paid_at, refunded_at, metadata]; its id is its index.  Stripe is outside
   the service: whether its calls succeed is an input, and it delivers the
   events of a checkout session in any order, late, and more than once. *)

MaxPayments == 2

PaymentStatuses == {"pending", "completed", "failed", "refunded"}

\* settings.calculate_price(team_size, criteria_count) of the orders here
PriceCents == 100

SessionId(payment_id) == "cs_" \o ToString(payment_id)
PaymentIntentId(payment_id) == "pi_" \o ToString(payment_id)

\* select(Payment).where(<column> == value).first()
PaymentWhere(column, value) ==
    {id \in DOMAIN payments : payments[id][column] = value}

FirstOf(ids) == CHOOSE id \in ids : \A other \in ids : id <= other

\* create_checkout_session: the row is committed as PENDING before the
\* call of Stripe; a StripeError makes it FAILED, else the session id is
\* stored
create_checkout_session(stripe_error) ==
    LET payment ==
            [status |-> "pending", amount_cents |-> PriceCents, stripe_session_id |-> "",
             stripe_payment_intent_id |-> "", paid_at |-> NoTime, refunded_at |-> NoTime,
             metadata |-> <<>>]
    IN  IF stripe_error
        THEN Append(payments, [payment EXCEPT !.status = "failed",
                                  !.metadata = [stripe_error |-> "StripeError"]])
        ELSE Append(payments, [payment EXCEPT
                                  !.stripe_session_id = SessionId(Len(payments) + 1)])

\* _handle_checkout_completed: the payment of the session gets the payment
\* intent, status COMPLETED and paid_at, whatever its status was
_handle_checkout_completed(session_data, utcnow) ==
    LET found == PaymentWhere("stripe_session_id", session_data.id)
    IN  IF found = {} THEN payments
        ELSE [payments EXCEPT ![FirstOf(found)] =
                 [@ EXCEPT !.stripe_payment_intent_id = session_data.payment_intent,
                           !.status = "completed", !.paid_at = utcnow,
                           !.metadata = [amount_total |-> session_data.amount_total] @@ @]]

\* _handle_payment_succeeded: a payment of the intent that is not COMPLETED
\* becomes COMPLETED, with paid_at
_handle_payment_succeeded(payment_intent_data, utcnow) ==
    LET found == PaymentWhere("stripe_payment_intent_id", payment_intent_data.id)
    IN  IF found = {} THEN payments
        ELSE IF payments[FirstOf(found)].status = "completed" THEN payments
        ELSE [payments EXCEPT ![FirstOf(found)] =
                 [@ EXCEPT !.status = "completed", !.paid_at = utcnow]]

\* _handle_payment_failed: the payment of the intent becomes FAILED
_handle_payment_failed(payment_intent_data, utcnow) ==
    LET found == PaymentWhere("stripe_payment_intent_id", payment_intent_data.id)
    IN  IF found = {} THEN payments
        ELSE [payments EXCEPT ![FirstOf(found)] =
                 [@ EXCEPT !.status = "failed",
                           !.metadata = [failure_code |-> payment_intent_data.code] @@ @]]

\* handle_webhook_event: by the type of the event; other types are logged
handle_webhook_event(event, utcnow) ==
    IF event.type = "checkout.session.completed"
    THEN _handle_checkout_completed(event.data, utcnow)
    ELSE IF event.type = "payment_intent.succeeded"
    THEN _handle_payment_succeeded(event.data, utcnow)
    ELSE IF event.type = "payment_intent.payment_failed"
    THEN _handle_payment_failed(event.data, utcnow)
    ELSE payments

\* process_refund: ValueError unless the payment exists, is COMPLETED and
\* has a payment intent; the refund is the amount asked for, or the whole
\* amount for None and 0; a StripeError is raised again as an Exception;
\* a refund of the whole amount makes the payment REFUNDED, and every
\* refund sets refunded_at
process_refund(payment_id, amount_cents, stripe_error, utcnow) ==
    LET Refund(payment, refund_amount) ==
            [raised |-> "", refund_amount |-> refund_amount,
             rows |-> [payments EXCEPT ![payment_id] =
                 [@ EXCEPT !.status = IF refund_amount >= payment.amount_cents
                                      THEN "refunded" ELSE @,
                           !.refunded_at = utcnow,
                           !.metadata = [refund_amount |-> refund_amount] @@ @]]]
        Refused(exception) == [raised |-> exception, refund_amount |-> 0, rows |-> payments]
    IN  IF payment_id \notin DOMAIN payments THEN Refused("ValueError: Payment not found")
        ELSE IF payments[payment_id].status # "completed"
        THEN Refused("ValueError: Only completed payments can be refunded")
        ELSE IF payments[payment_id].stripe_payment_intent_id = ""
        THEN Refused("ValueError: No Stripe payment intent found")
        ELSE IF stripe_error THEN Refused("Exception: Failed to process refund")
        ELSE Refund(payments[payment_id],
                    IF amount_cents = 0 THEN payments[payment_id].amount_cents
                    ELSE amount_cents)

CreateCheckoutSession(stripe_error) ==
    /\ Len(payments) < MaxPayments
    /\ payments' = create_checkout_session(stripe_error)
    /\ result' = [op |-> "create_checkout_session", payment_id |-> Len(payments) + 1,
                  raised |-> IF stripe_error THEN "Exception" ELSE ""]
    /\ UNCHANGED <<analytics_tables, now, accounts, surveys, requests, survey_invitations>>

HandleWebhookEvent(event) ==
    /\ payments' = handle_webhook_event(event, now)
    /\ result' = [op |-> "handle_webhook_event", type |-> event.type, id |-> event.data.id,
                  raised |-> ""]
    /\ UNCHANGED <<analytics_tables, now, accounts, surveys, requests, survey_invitations>>

ProcessRefund(payment_id, amount_cents, stripe_error) ==
    /\ LET Done(out) ==
               /\ payments' = out.rows
               /\ result' = [op |-> "process_refund", payment_id |-> payment_id,
                             raised |-> out.raised, amount |-> out.refund_amount]
       IN  Done(process_refund(payment_id, amount_cents, stripe_error, now))
    /\ UNCHANGED <<analytics_tables, now, accounts, surveys, requests, survey_invitations>>

\* The events Stripe can deliver: those of the checkout sessions that were
\* created, at any time after the creation and any number of times, an
\* event of a session the service does not know, and an event of a type it
\* does not handle.
WebhookEvents ==
    UNION {{[type |-> "checkout.session.completed",
             data |-> [id |-> SessionId(p), payment_intent |-> PaymentIntentId(p),
                       amount_total |-> PriceCents]],
            [type |-> "payment_intent.succeeded", data |-> [id |-> PaymentIntentId(p)]],
            [type |-> "payment_intent.payment_failed",
             data |-> [id |-> PaymentIntentId(p), code |-> "card_declined"]]} :
              p \in {id \in DOMAIN payments : payments[id].stripe_session_id # ""}}
    \cup {[type |-> "checkout.session.completed",
           data |-> [id |-> "cs_other", payment_intent |-> "pi_other",
                     amount_total |-> PriceCents]],
          [type |-> "charge.dispute.created", data |-> [id |-> "dp_1"]]}

\* amount_cents of a refund: None (0), a part, the whole amount
RefundAmounts == {0, 50, PriceCents}

PaymentInit ==
    /\ survey_type = "sociometry"
    /\ total_invitations = 0
    /\ responses = <<>>
    /\ snapshots = <<>>
    /\ now = 0
    /\ result = NoResult
    /\ OtherTablesInit

PaymentNext ==
    \/ \E stripe_error \in BOOLEAN : CreateCheckoutSession(stripe_error)
    \/ \E event \in WebhookEvents : HandleWebhookEvent(event)
    \/ \E id \in 1..MaxPayments, amount_cents \in RefundAmounts, stripe_error \in BOOLEAN :
           ProcessRefund(id, amount_cents, stripe_error)
    \/ Tick

PaymentSpec == PaymentInit /\ [][PaymentNext]_vars

----------------------------------------------------------------------------
(* Properties of the connection analysis *)

\* The raw (not yet normalized) weights accumulated from the stored responses.
RawConnections == AccumulateConnections(NoConnections, responses)

\* The graph the analysis of the stored responses builds.
AnalysedGraph ==
    BuildGraph(RespondentUsers(responses),
               _analyze_sociometric_connections(responses, UserTable).connections,
               DefaultMinStrength)

Analysed == result.op = "analyze_team_dynamics"

\* C1: whatever the answers hold, no key of the connection map, raw or
\* normalized, and no link of the emitted network joins an id with itself.
C1_NoSelfLoops ==
    /\ \A key \in DOMAIN RawConnections.connections : key[1] # key[2]
    /\ Analysed =>
          /\ \A key \in DOMAIN result.connections : key[1] # key[2]
          /\ \A l \in result.network.links : l.source # l.target

\* A respondent named themselves, by integer or by string id, beside
\* somebody else, and the analysis emitted a network with a link.
C1_SelfNominationDropped ==
    /\ Analysed
    /\ result.network.links # {}
    /\ \E i \in DOMAIN responses :
          \E k \in DOMAIN responses[i].answers[1].items :
              LET item == responses[i].answers[1].items[k]
              IN  /\ responses[i].answers[1].k = "list"
                  /\ IsIntOrStr(item)
                  /\ PyStr(item) = ToString(responses[i].respondent_id)

\* C2: when the responses yield at least one pair, normalization does not
\* fail, keeps every pair, puts every weight in [0, 1] and gives weight
\* exactly 1 to at least one pair.
C2_WeightsNormalized ==
    LET out == _analyze_sociometric_connections(responses, UserTable)
    IN  (RawConnections.raised = "" /\ DOMAIN RawConnections.connections # {}) =>
            /\ out.raised = ""
            /\ DOMAIN out.connections = DOMAIN RawConnections.connections
            /\ \A key \in DOMAIN out.connections :
                   /\ FracGeq(out.connections[key], [num |-> 0, den |-> 1])
                   /\ FracGeq([num |-> 1, den |-> 1], out.connections[key])
            /\ \E key \in DOMAIN out.connections :
                   FracEq(out.connections[key], [num |-> 1, den |-> 1])

\* The only pair stored has raw weight 0, and the analysis ended in the
\* division by the maximum.
C2_ZeroMaximumDivides ==
    /\ Analysed
    /\ DOMAIN RawConnections.connections # {}
    /\ \A key \in DOMAIN RawConnections.connections :
           RawConnections.connections[key] = Double(0)
    /\ result.raised = "ZeroDivisionError"

\* What one element of an answer of the given kind gives to target, in
\* tenths: 0.5 for a list element, the weight (default 1.0) of a selection.
ItemWeight(kind, item, target) ==
    IF kind = "list"
    THEN IF IsIntOrStr(item) /\ PyStr(item) = target THEN 5 ELSE 0
    ELSE IF item.has_user_id /\ PyStr(item.user_id) = target
         THEN IF item.weight.k = "absent" THEN 10 ELSE item.weight.n
         ELSE 0

ItemNames(kind, item, target) ==
    IF kind = "list" THEN IsIntOrStr(item) /\ PyStr(item) = target
    ELSE item.has_user_id /\ PyStr(item.user_id) = target

\* The nominations of b by a in the stored responses, as (response, answer,
\* element) positions.
Nominations(a, b) ==
    {p \in (DOMAIN responses) \X (1..1) \X (1..MaxNominations) :
        /\ responses[p[1]].respondent_id # None
        /\ ToString(responses[p[1]].respondent_id) = a
        /\ p[2] \in DOMAIN responses[p[1]].answers
        /\ responses[p[1]].answers[p[2]].k \in {"list", "selections"}
        /\ p[3] \in DOMAIN responses[p[1]].answers[p[2]].items
        /\ ItemNames(responses[p[1]].answers[p[2]].k,
                     responses[p[1]].answers[p[2]].items[p[3]], b)}

\* The sum of the weights of the nominations of b by a.
Nominated(a, b) ==
    SumSet(Nominations(a, b),
           [p \in Nominations(a, b) |->
               ItemWeight(responses[p[1]].answers[p[2]].k,
                          responses[p[1]].answers[p[2]].items[p[3]], b)])

\* A lists B and C; B selects A with weight 1.0.
ScenarioABC ==
    <<[respondent_id |-> 1,
       answers |-> <<ListAnswer(<<IntId(2), IntId(3)>>)>>],
      [respondent_id |-> 2,
       answers |-> <<SelAnswer(<<Selection(IntId(1), WNum(10))>>)>>]>>

\* C3: for every two distinct ids a < b, the pair (a, b) is a key of the raw
\* map exactly when one nominated the other, its raw weight is the sum of
\* the weights of the nominations in both directions, and no key is kept in
\* the other order; in the scenario of A, B and C the raw weights are 1.5
\* and 0.5 and the normalized ones 1 and 1/3.
C3_RawWeightIsSumOfNominations ==
    /\ RawConnections.raised = "" =>
          /\ \A key \in DOMAIN RawConnections.connections :
                 StrRank(key[1]) <= StrRank(key[2])
          /\ \A i, j \in DOMAIN IdOrder :
                 i < j =>
                     LET a == IdOrder[i]
                         b == IdOrder[j]
                     IN  /\ (<<a, b>> \in DOMAIN RawConnections.connections)
                                <=> (Nominations(a, b) \cup Nominations(b, a) # {})
                         /\ Get(RawConnections.connections, <<a, b>>, Double(0))
                                = Double(Nominated(a, b) + Nominated(b, a))
    /\ responses = ScenarioABC =>
          LET out == _analyze_sociometric_connections(responses, UserTable)
          IN  /\ RawConnections.connections
                     = (<<"1", "2">> :> Double(15)) @@ (<<"1", "3">> :> Double(5))
              /\ out.raised = ""
              /\ FracEq(out.connections[<<"1", "2">>], [num |-> 1, den |-> 1])
              /\ FracEq(out.connections[<<"1", "3">>], [num |-> 1, den |-> 3])

\* The scenario of A, B and C is stored and has been analysed.
C3_ScenarioAnalysed ==
    /\ responses = ScenarioABC
    /\ Analysed
    /\ DOMAIN result.connections = {<<"1", "2">>, <<"1", "3">>}

\* The edge candidates an answer gives by its shape, in the order of its
\* elements, as [target, weight]: a selection that names somebody else gives
\* one with its declared weight, or 1.0 without one; a listed int or string
\* other than the respondent gives one of weight 0.5; the rest give none.
Candidates(respondent_id, answer) ==
    LET Other(id) == PyStr(id) # respondent_id
        Named(selection) == selection.has_user_id /\ Other(selection.user_id)
        Listed(item) == IsIntOrStr(item) /\ Other(item)
        OfSelections(sel) ==
            [i \in DOMAIN sel |->
                [target |-> PyStr(sel[i].user_id),
                 weight |-> IF sel[i].weight.k = "absent" THEN WNum(10)
                            ELSE sel[i].weight]]
        OfList(lst) ==
            [i \in DOMAIN lst |-> [target |-> PyStr(lst[i]), weight |-> WNum(5)]]
    IN  CASE answer.k = "selections" -> OfSelections(SelectSeq(answer.items, Named))
          [] answer.k = "list" -> OfList(SelectSeq(answer.items, Listed))
          [] OTHER -> <<>>

\* The weights of a sequence of candidates, added from the left.
RECURSIVE SumCandidates(_, _)
SumCandidates(acc, c) ==
    IF c = <<>> THEN acc
    ELSE SumCandidates(FloatAdd(acc, Double(Head(c).weight.n)), Tail(c))

\* C11: what an answer of a stored response adds to an empty connection map
\* is decided by its candidates alone: the keys are the pairs of the
\* respondent with the candidates' targets, the weight of a pair is the sum
\* of the weights of the candidates for it, and an answer without
\* candidates (a rating, a text, another structure) adds nothing; when a
\* candidate's declared weight is no number, the sum raises TypeError.
C11_CandidatesByShape ==
    \A i \in DOMAIN responses :
        responses[i].respondent_id # None =>
            \A j \in DOMAIN responses[i].answers :
                LET respondent_id == ToString(responses[i].respondent_id)
                    c == Candidates(respondent_id, responses[i].answers[j])
                    out == AddAnswers(NoConnections, respondent_id,
                                      <<responses[i].answers[j]>>)
                    For(target) == LET Is(x) == x.target = target IN SelectSeq(c, Is)
                IN  IF \E k \in DOMAIN c : c[k].weight.k = "bad"
                    THEN out.raised = "TypeError"
                    ELSE /\ out.raised = ""
                         /\ DOMAIN out.connections
                                = {SortedPair(respondent_id, c[k].target) : k \in DOMAIN c}
                         /\ \A k \in DOMAIN c :
                                out.connections[SortedPair(respondent_id, c[k].target)]
                                    = SumCandidates(Double(0), For(c[k].target))

\* A selection without a weight, a list and a rating were stored and
\* analysed together: the selection counted 1.0 and the list element 0.5.
C11_ShapesAnalysed ==
    /\ Analysed
    /\ result.raised = ""
    /\ \E i \in DOMAIN responses :
           /\ responses[i].answers[1].k = "selections"
           /\ responses[i].answers[1].items[1].has_user_id
           /\ responses[i].answers[1].items[1].weight.k = "absent"
    /\ \E i \in DOMAIN responses : responses[i].answers[1].k = "list"
    /\ \E i \in DOMAIN responses : responses[i].answers[1].k = "scalar"
    /\ RawConnections.connections = (<<"1", "2">> :> Double(15))

----------------------------------------------------------------------------
(* Properties of the network and of the team-dynamics report *)

\* An element that names a user of the table by integer or numeric string
\* and, in a selection, carries a numeric weight or none.
WellFormedId(v) == IsIntOrStr(v) /\ \E u \in Users : PyStr(v) = ToString(u)

WellFormedItem(kind, item) ==
    IF kind = "list" THEN WellFormedId(item)
    ELSE item.has_user_id /\ WellFormedId(item.user_id) /\ item.weight.k # "bad"

\* The stored responses without their malformed elements.
WithoutMalformed(rs) ==
    [i \in DOMAIN rs |->
        [rs[i] EXCEPT !.answers =
            [j \in DOMAIN rs[i].answers |->
                LET answer == rs[i].answers[j]
                    Keep(item) == WellFormedItem(answer.k, item)
                IN  IF answer.k \in {"list", "selections"}
                    THEN [answer EXCEPT !.items = SelectSeq(answer.items, Keep)]
                    ELSE answer]]]

\* C4: malformed elements are skipped and nothing else is lost: the
\* connection analysis and the network give, and raise, on the stored
\* responses what they give on the same responses without those elements.
C4_MalformedItemsSkipped ==
    LET dirty == generate_network_visualization(survey_type, responses, DefaultMinStrength)
        clean == generate_network_visualization(survey_type, WithoutMalformed(responses),
                                                DefaultMinStrength)
    IN  /\ _analyze_sociometric_connections(responses, UserTable)
               = _analyze_sociometric_connections(WithoutMalformed(responses), UserTable)
        /\ dirty.raised = clean.raised
        /\ dirty.value = clean.value

\* A selection of somebody else with a weight that is no number was
\* analysed, and the TypeError of the addition escaped.
C4_BadWeightEscapes ==
    /\ Analysed
    /\ result.raised = "TypeError"
    /\ \E i \in DOMAIN responses :
          /\ responses[i].answers[1].k = "selections"
          /\ \E k \in DOMAIN responses[i].answers[1].items :
                 responses[i].answers[1].items[k].weight.k = "bad"

\* C5: when the graph of the analysed responses has no edge (no node, one
\* node, or nodes that nobody linked), the analysis raises nothing, and
\* density, average clustering and both centralities of every node are 0.
C5_DegenerateMetricsZero ==
    (/\ Analysed
     /\ _analyze_sociometric_connections(responses, UserTable).raised = ""
     /\ AnalysedGraph.edges = {}) =>
        /\ result.raised = ""
        /\ Get(result.network.metadata, "network_density", 0) = 0
        /\ Get(result.network.metadata, "avg_clustering", 0) = 0
        /\ \A i \in DOMAIN result.network.nodes :
               /\ result.network.nodes[i].centrality_score = 0
               /\ result.network.nodes[i].influence_score = 0

\* Only anonymous responses were analysed: the graph has no node and the
\* eigenvector centrality raised.
C5_NullGraphRaises ==
    /\ Analysed
    /\ responses # <<>>
    /\ \A i \in DOMAIN responses : responses[i].respondent_id = None
    /\ result.raised = "NetworkXPointlessConcept"

\* C6: analysing a sociometric survey without responses raises nothing and
\* returns no error result but a report whose scores are present and 0 and
\* whose lists are present and empty.
C6_EmptySurveyReport ==
    (Analysed /\ responses = <<>>) =>
        /\ result.raised = ""
        /\ "error" \notin DOMAIN result.value
        /\ \A f \in {"team_cohesion_score", "communication_effectiveness",
                     "collaboration_index"} :
               f \in DOMAIN result.value /\ result.value[f] = 0
        /\ \A f \in {"isolated_members", "key_connectors"} :
               f \in DOMAIN result.value /\ result.value[f] = <<>>

\* The survey without responses was analysed and the error result returned.
C6_ErrorResultReturned ==
    /\ Analysed
    /\ responses = <<>>
    /\ result.raised = ""
    /\ result.value = [error |-> "No data available for analysis"]

\* C9: whenever the network has a node, so that the cohesion is computed,
\* connected_components is at least 1, nothing is raised, and the score (in
\* hundredths) lies between 0 and 100.
C9_CohesionInRange ==
    (Analysed /\ result.network.nodes # <<>>) =>
        /\ result.network.metadata.connected_components >= 1
        /\ result.raised = ""
        /\ result.value.team_cohesion_score >= 0
        /\ result.value.team_cohesion_score <= 10000

\* A triangle was scored: density 1, clustering 1, one component, and the
\* score is exactly 100.
C9_TriangleScoresHundred ==
    /\ Analysed
    /\ result.raised = ""
    /\ Len(result.network.nodes) = 3
    /\ result.network.metadata.connected_components = 1
    /\ result.value.team_cohesion_score = 10000

\* C10: isolated_members holds one entry, the node's name, for each node
\* whose degree in the graph is below 2, in node order, and none for any
\* other node.
C10_IsolatedIffDegreeBelowTwo ==
    (Analysed /\ result.raised = "" /\ result.network.nodes # <<>>) =>
        LET Low(node) == Degree(AnalysedGraph, node.id) < 2
            low == SelectSeq(result.network.nodes, Low)
        IN  result.value.isolated_members = [i \in DOMAIN low |-> low[i].name]

\* A path of three nodes was analysed: its two ends are reported, its
\* middle is not.
C10_PathEndsIsolated ==
    /\ Analysed
    /\ result.raised = ""
    /\ Len(result.network.nodes) = 3
    /\ Cardinality(result.network.links) = 2
    /\ Len(result.value.isolated_members) = 2

\* The network was asked for, with some threshold.
Visualized == result.op = "generate_network_visualization"

\* C12: when a network is emitted for stored responses, the pairs of its
\* links are exactly the pairs whose normalized weight is at least the
\* threshold passed; the normalized map is the one the connection analysis
\* gives whatever the threshold, and each link carries the normalized weight
\* of its pair (rounded to three decimals, as every emitted number is).
C12_EdgesAtOrAboveThreshold ==
    (Visualized /\ result.raised = "" /\ responses # <<>>) =>
        LET normalized == _analyze_sociometric_connections(responses, UserTable).connections
        IN  /\ result.connections = normalized
            /\ {<<l.source, l.target>> : l \in result.value.links}
                   = {key \in DOMAIN normalized :
                         FracGeq(normalized[key], result.min_connection_strength)}
            /\ \A l \in result.value.links :
                   l.weight = Round3(normalized[<<l.source, l.target>>])
            /\ result.value.metadata.total_connections
                   = Cardinality({key \in DOMAIN normalized :
                         FracGeq(normalized[key], result.min_connection_strength)})

\* A network was emitted in which a pair whose weight equals the threshold
\* is a link and a pair of smaller weight is not.
C12_EdgeAtThresholdKept ==
    /\ Visualized
    /\ result.raised = ""
    /\ \E key \in DOMAIN result.connections :
           /\ FracEq(result.connections[key], result.min_connection_strength)
           /\ \E l \in result.value.links : <<l.source, l.target>> = key
    /\ \E key \in DOMAIN result.connections :
           /\ FracLess(result.connections[key], result.min_connection_strength)
           /\ \A l \in result.value.links : <<l.source, l.target>> # key

\* C13: when the network of stored responses is asked for and the
\* connection analysis succeeds, a network is emitted whose node ids are
\* exactly the ids of the respondents together with the two ends of every
\* edge that survives the threshold, and every node carries a name, a
\* department and a position.
C13_NodesAreRespondentsAndEndpoints ==
    (/\ Visualized
     /\ NetworkAnalysisAvailable(survey_type)
     /\ responses # <<>>
     /\ _analyze_sociometric_connections(responses, UserTable).raised = "") =>
        LET normalized == _analyze_sociometric_connections(responses, UserTable).connections
            kept == {key \in DOMAIN normalized :
                        FracGeq(normalized[key], result.min_connection_strength)}
            expected == {ToString(responses[i].respondent_id) : i \in DOMAIN responses}
                        \cup UNION {{key[1], key[2]} : key \in kept}
        IN  /\ result.raised = ""
            /\ {result.value.nodes[i].id : i \in DOMAIN result.value.nodes} = expected
            /\ \A i \in DOMAIN result.value.nodes :
                   {"name", "department", "position"} \subseteq DOMAIN result.value.nodes[i]

\* User 1 alone responded and listed users 2 and 3, who are users of the
\* table: their nodes have no attributes and building the node list raised.
C13_NomineeWithoutResponseRaises ==
    /\ Visualized
    /\ result.min_connection_strength = DefaultMinStrength
    /\ responses = <<[respondent_id |-> 1,
                      answers |-> <<ListAnswer(<<IntId(2), IntId(3)>>)>>]>>
    /\ DOMAIN result.connections = {<<"1", "2">>, <<"1", "3">>}
    /\ result.raised = "KeyError"

\* The stored responses in the order given by a permutation of their indices.
InOrder(rs, order) == [i \in DOMAIN rs |-> rs[order[i]]]

\* C14: the normalized edge weights do not depend on the order in which the
\* responses are processed: every ordering of the stored responses gives the
\* map of normalized weights that the network was built from.
C14_WeightsIndependentOfOrder ==
    (Visualized /\ NetworkAnalysisAvailable(survey_type) /\ responses # <<>>) =>
        \A order \in Permutations(DOMAIN responses) :
            _analyze_sociometric_connections(InOrder(responses, order), UserTable).connections
                = result.connections

\* Respondent 1 selected user 2 twice with weight 0.1 and user 3 with weight
\* 1.0, respondent 2 selected user 1 with weight 0.4, respondent 3 gave a
\* rating: in this order the pair (1, 2) sums to 0.6000000000000001, with the
\* first two responses exchanged to 0.6.
C14_SumDependsOnOrder ==
    /\ Visualized
    /\ responses = <<[respondent_id |-> 1,
                      answers |-> <<SelAnswer(<<Selection(IntId(2), WNum(1)),
                                               Selection(IntId(2), WNum(1)),
                                               Selection(IntId(3), WNum(10))>>)>>],
                     [respondent_id |-> 2,
                      answers |-> <<SelAnswer(<<Selection(IntId(1), WNum(4))>>)>>],
                     [respondent_id |-> 3, answers |-> <<Scalar>>]>>
    /\ result.raised = ""
    /\ result.connections[<<"1", "3">>].of[4] = FALSE
    /\ result.connections[<<"1", "2">>]
          # _analyze_sociometric_connections(InOrder(responses, <<2, 1, 3>>),
                                             UserTable).connections[<<"1", "2">>]

\* C15: a network analysis asked for a survey whose type is neither
\* sociometry nor team_dynamics is rejected with an error before any response
\* is read, it leaves the stored state as it was and returns no network.
C15_OtherTypesRejected ==
    [][(/\ result' # result
        /\ result'.op \in {"generate_network_visualization", "analyze_team_dynamics"}
        /\ survey_type \notin {"sociometry", "team_dynamics"}) =>
           /\ result'.raised = "ValueError"
           /\ result'.network = NoNetwork
           /\ \A i \in DOMAIN result'.queried : result'.queried[i] = "Survey"
           /\ UNCHANGED <<survey_type, total_invitations, responses, snapshots>>]_vars

\* The network of an eNPS survey with stored responses was asked for and
\* refused.
C15_RejectedWithStoredResponses ==
    /\ Visualized
    /\ survey_type = "enps"
    /\ Len(responses) = 2
    /\ result.raised = "ValueError"
    /\ result.queried = <<"Survey">>

\* The survey has one response, of a user, and every answer of it is a rating.
SingleRatingResponse ==
    /\ Len(responses) = 1
    /\ responses[1].respondent_id \in Users
    /\ responses[1].answers # <<>>
    /\ \A j \in DOMAIN responses[1].answers : responses[1].answers[j].k = "scalar"

\* C16 (as claimed): the team dynamics of a survey whose single response, of
\* a user, holds only ratings has no edge, the respondent as its only node, a
\* team cohesion score of 0, and raises nothing.
C16_SingleRatingCohesionZero ==
    (Analysed /\ SingleRatingResponse) =>
        /\ result.raised = ""
        /\ result.network.links = {}
        /\ Len(result.network.nodes) = 1
        /\ result.value.team_cohesion_score = 0

\* C16 (amended): the same analysis has no edge, the respondent as its only
\* node, raises nothing, and reports a team cohesion score of 20.0: density
\* and clustering are 0 and the single component contributes 20 / 1.
C16_SingleRatingCohesionTwenty ==
    (Analysed /\ SingleRatingResponse) =>
        /\ result.raised = ""
        /\ result.connections = <<>>
        /\ result.network.links = {}
        /\ Len(result.network.nodes) = 1
        /\ result.network.nodes[1].id = ToString(responses[1].respondent_id)
        /\ result.network.metadata.connected_components = 1
        /\ result.value.team_cohesion_score = 2000

\* User 2 alone answered, with one rating, and the team was analysed.
C16_SingleRatingAnalysed ==
    /\ Analysed
    /\ responses = <<[respondent_id |-> 2, answers |-> <<Scalar>>]>>
    /\ result.raised = ""
    /\ result.value.team_cohesion_score = 2000

\* The recommendations in the order of the rule table: both cohesion rules,
\* then communication, then the isolated members, then the check-ins.
RuleTableOrder(cohesion_score, communication_effectiveness, isolated_members) ==
    (IF FracLess(cohesion_score, [num |-> 50, den |-> 1])
     THEN <<TeamBuildingItem>> ELSE <<>>)
    \o (IF FracLess([num |-> 80, den |-> 1], cohesion_score)
        THEN <<PreserveItem>> ELSE <<>>)
    \o (IF FracLess(communication_effectiveness, [num |-> 60, den |-> 1])
        THEN <<ChannelsItem>> ELSE <<>>)
    \o (IF Len(isolated_members) > 0
        THEN <<IntegrationItem(isolated_members)>> ELSE <<>>)
    \o <<CheckInsItem>>

\* A team dynamics report was produced.
Reported == Analysed /\ result.raised = "" /\ "recommendations" \in DOMAIN result.value

\* C20: the recommendations of a report are the items of the rules that
\* fire, each rule on its own, in the order of the rule table: cohesion
\* rules, communication, isolated members, and the check-ins item last.
C20_RecommendationsInRuleOrder ==
    Reported =>
        result.value.recommendations
            = RuleTableOrder(_calculate_team_cohesion(result.network.metadata).value,
                             _analyze_communication_patterns(result.network),
                             _identify_isolated_members(result.network))

\* A report on a fully connected team (cohesion above 80) whose links are
\* weak on average (communication below 60): the preserve-practices item
\* follows the communication item.
C20_PreserveItemAfterCommunication ==
    /\ Reported
    /\ result.value.team_cohesion_score > 8000
    /\ result.value.communication_effectiveness < 6000
    /\ result.value.recommendations = <<ChannelsItem, PreserveItem, CheckInsItem>>

\* C19: leadership_influence of a report has min(5, number of nodes)
\* entries, each the name and the combined score of a node of its own, in
\* descending order of score, and no node left out scores strictly higher
\* than an entry.
C19_TopFiveOnePerNode ==
    Reported =>
        LET nodes == result.network.nodes
            top == result.value.leadership_influence
        IN  /\ Len(top) = Min(5, Len(nodes))
            /\ \E pick \in [DOMAIN top -> DOMAIN nodes] :
                   /\ \A j, k \in DOMAIN top : j # k => pick[j] # pick[k]
                   /\ \A k \in DOMAIN top :
                          top[k] = [name |-> nodes[pick[k]].name,
                                    score |-> LeadershipScore(nodes[pick[k]])]
                   /\ \A j, k \in DOMAIN top :
                          (j < k) => \/ top[j].score > top[k].score
                                     \/ top[j].score = top[k].score /\ pick[j] < pick[k]
                   /\ \A i \in DOMAIN nodes :
                          (\A k \in DOMAIN top : pick[k] # i) =>
                              \A k \in DOMAIN top : LeadershipScore(nodes[i]) <= top[k].score

\* Users 1 and 3, who share the display name, and user 2 all responded: the
\* report has three nodes and two leadership entries, and the entry of the
\* shared name carries the score of user 3.
C19_SharedNameMerged ==
    /\ Reported
    /\ Len(result.network.nodes) = 3
    /\ Len(result.value.leadership_influence) = 2
    /\ LeadershipScore(result.network.nodes[1]) # LeadershipScore(result.network.nodes[3])
    /\ \E k \in DOMAIN result.value.leadership_influence :
           result.value.leadership_influence[k]
               = [name |-> "Ann Lee", score |-> LeadershipScore(result.network.nodes[3])]

\* The department of the node of an identifier, "" when it is not set.
DepartmentOf(network_data, node_id) ==
    LET nodes == network_data.nodes
    IN  nodes[CHOOSE i \in DOMAIN nodes : nodes[i].id = node_id].department

\* C18 (as claimed): the collaboration index is 100 times the share of the
\* links whose two ends have different departments, and 0 without links.
C18_EveryDifferenceCounted ==
    (result.op = "_calculate_collaboration_index") =>
        LET network_data == result.network_data
            links == network_data.links
            differing == {l \in links : DepartmentOf(network_data, l.source)
                                            # DepartmentOf(network_data, l.target)}
        IN  IF links = {} THEN result.value = [num |-> 0, den |-> 1]
            ELSE result.value.num * Cardinality(links)
                     = 100 * Cardinality(differing) * result.value.den

\* C18 (amended): the collaboration index is 100 times the share of the
\* links whose two ends both have a department and have different ones, and
\* 0 without links: a link with an end that has no department counts in the
\* total only.
C18_SetDepartmentsThatDiffer ==
    (result.op = "_calculate_collaboration_index") =>
        LET network_data == result.network_data
            links == network_data.links
            Set(l) == /\ DepartmentOf(network_data, l.source) # ""
                      /\ DepartmentOf(network_data, l.target) # ""
            differing == {l \in links : DepartmentOf(network_data, l.source)
                                            # DepartmentOf(network_data, l.target)}
        IN  IF links = {} THEN result.value = [num |-> 0, den |-> 1]
            ELSE result.value.num * Cardinality(links)
                     = 100 * Cardinality({l \in differing : Set(l)}) * result.value.den

\* Node 1 has no department, node 2 is in Eng, node 3 in Ops; of the links
\* 1-2 and 2-3 only the second counts: the index is 50.
C18_MissingDepartmentNotCounted ==
    /\ result.op = "_calculate_collaboration_index"
    /\ Len(result.network_data.nodes) = 3
    /\ [i \in 1..3 |-> result.network_data.nodes[i].department] = <<"", "Eng", "Ops">>
    /\ result.network_data.links = {[source |-> "1", target |-> "2"],
                                    [source |-> "2", target |-> "3"]}
    /\ result.value = [num |-> 100, den |-> 2]

----------------------------------------------------------------------------
(* Properties of generate_ai_insights and of its cache *)

Enriched == result.op = "generate_ai_insights"

\* C7: when the enrichment call raised, generate_ai_insights raises nothing
\* and returns what _generate_fallback_insights gives for the analysis of
\* the same survey at the same time.
C7_FallbackOnEnrichmentFailure ==
    (Enriched /\ result.enrichment = "raised") =>
        /\ result.raised = ""
        /\ result.value
               = _generate_fallback_insights(AnalysisData(result.survey_id).data, now)

\* The enrichment raised for a survey whose analysis gives both a risk and
\* a positive.
C7_FallbackReturned ==
    /\ Enriched
    /\ result.enrichment = "raised"
    /\ result.value.source = "automated_analysis"
    /\ result.value.risks # <<>>
    /\ result.value.positives # <<>>

\* The enrichment failed and the analysis of the survey holds a report.
FellBackOnReport ==
    /\ Enriched
    /\ result.enrichment \in {"raised", "commit_failed"}
    /\ result.raised = ""
    /\ "recommendations" \in DOMAIN AnalysisData(result.survey_id).data.team_dynamics

\* C17: when the enrichment fails, the recommendations returned are those of
\* the rule table for the same analysis: the items of the cohesion,
\* communication and isolated-member rules that fire, and the check-ins
\* item, which is always there.
C17_FallbackIsRuleTable ==
    FellBackOnReport =>
        /\ result.value.recommendations
               = AnalysisData(result.survey_id).data.team_dynamics.recommendations
        /\ CheckInsItem \in Range(result.value.recommendations)

\* Three of four invited members answered, user 1 naming users 2 and 3: the
\* rule table names the two isolated members and asks for check-ins, the
\* fallback returned on the failure of the enrichment recommends nothing.
C17_FallbackWithoutCheckIns ==
    /\ FellBackOnReport
    /\ AnalysisData(result.survey_id).data.metrics.response_rate = 7500
    /\ AnalysisData(result.survey_id).data.team_dynamics.recommendations
           = <<IntegrationItem(<<"bob@example.com", "Ann Lee">>), CheckInsItem>>
    /\ result.value.recommendations = <<>>
    /\ result.value.positives = <<"High response rate indicates strong team engagement">>

\* C8: a call without force_regenerate returns cached data only if it is
\* the data of an 'insights' snapshot of that survey that expires after the
\* time of the call; and when there is no such snapshot it returns nothing
\* cached but recomputes: it calls calculate_survey_metrics, then
\* generate_network_visualization, then analyze_team_dynamics, and stops
\* short only when one of them raises.
C8_CacheOnlyWhileFresh ==
    [][(result'.op = "generate_ai_insights" /\ ~result'.force_regenerate) =>
          LET fresh == {i \in DOMAIN snapshots :
                           /\ snapshots[i].survey_id = result'.survey_id
                           /\ snapshots[i].snapshot_type = "insights"
                           /\ snapshots[i].expires_at > now}
          IN  /\ result'.cached =>
                     \E i \in fresh : result'.value = snapshots[i].data
              /\ fresh = {} =>
                     /\ ~result'.cached
                     /\ result'.calls # <<>>
                     /\ result'.calls[1] = "calculate_survey_metrics"
                     /\ Len(result'.calls) = 3 \/ result'.raised # ""
      ]_vars

\* A call without force_regenerate recomputed although a snapshot of the
\* survey is stored: the snapshot had expired.
C8_ExpiredSnapshotRecomputed ==
    /\ Enriched
    /\ ~result.force_regenerate
    /\ ~result.cached
    /\ Len(result.calls) = 3
    /\ \E i \in DOMAIN snapshots :
          /\ snapshots[i].survey_id = result.survey_id
          /\ snapshots[i].expires_at <= now


----------------------------------------------------------------------------
(* Properties of _calculate_engagement_score *)

Scored == result.op = "_calculate_engagement_score"

\* The quality score of the responses scored, from their answers: ten times
\* the mean share of the answers that are neither None, "" nor [].
QualityOf(rs) ==
    LET answered == {i \in DOMAIN rs : Len(rs[i].answers) > 0}
        Filled(i) == Cardinality({j \in DOMAIN rs[i].answers :
                         rs[i].answers[j] \notin {"None", "empty_str", "empty_list"}})
        total == FracSumSeq(SelectSeq([i \in DOMAIN rs |->
                                          [num |-> Filled(i), den |-> Len(rs[i].answers)]],
                                      LAMBDA f : f.den > 0))
    IN  IF answered = {} THEN [num |-> 0, den |-> 1]
        ELSE [num |-> total.num * 10, den |-> total.den * Cardinality(answered)]

\* C21: the engagement score is min(response_rate * 0.4, 40) +
\* min(completion_rate * 0.3, 30) + speed_score + quality_score, with
\* speed_score 20 up to 24 hours, 15 up to 72, 10 up to 168 and 5 beyond,
\* quality_score within [0, 10], and the score within [0, 100].
C21_EngagementScoreFormula ==
    Scored =>
        LET rate == result.response_rate
            completion == result.completion_rate
            t == result.avg_response_time
            speed == CASE t <= 24 -> 20
                       [] t > 24 /\ t <= 72 -> 15
                       [] t > 72 /\ t <= 168 -> 10
                       [] t > 168 -> 5
            quality == QualityOf(result.responses)
            by_rate == IF 4 * rate.num <= 400 * rate.den
                       THEN [num |-> 4 * rate.num, den |-> 10 * rate.den]
                       ELSE [num |-> 40, den |-> 1]
            by_completion == IF 3 * completion.num <= 300 * completion.den
                             THEN [num |-> 3 * completion.num, den |-> 10 * completion.den]
                             ELSE [num |-> 30, den |-> 1]
        IN  /\ quality.num >= 0 /\ quality.num <= 10 * quality.den
            /\ FracEq(result.value,
                      FracAdd(FracAdd(by_rate, by_completion),
                              FracAdd([num |-> speed, den |-> 1], quality)))
            /\ result.value.num >= 0
            /\ result.value.num <= 100 * result.value.den

\* A response rate above 100 and a mean response time of exactly 24 hours,
\* with half of the answers filled in: 40 + 15 + 20 + 5 = 80.
C21_CappedRateAtFirstStep ==
    /\ Scored
    /\ result.response_rate = [num |-> 250, den |-> 1]
    /\ result.completion_rate = [num |-> 50, den |-> 1]
    /\ result.avg_response_time = 24
    /\ result.responses = <<[answers |-> <<"value", "empty_list">>]>>
    /\ FracEq(result.value, [num |-> 80, den |-> 1])


----------------------------------------------------------------------------
(* Properties of the login route and of verify_token *)

LoggedIn == result.op = "login"

\* The inactive users that have the e-mail and the password of the attempt.
InactiveMatches ==
    {id \in DOMAIN accounts :
        /\ accounts[id].email = result.email
        /\ accounts[id].hashed_password = result.password
        /\ ~accounts[id].is_active}

\* C22: a login with the e-mail and the password of an inactive user is
\* answered with 401 and 'Account is inactive', and carries no token.
C22_InactiveAccountRejected ==
    (LoggedIn /\ InactiveMatches # {}) =>
        /\ result.status = 401
        /\ result.detail = "Account is inactive"
        /\ "access_token" \notin DOMAIN result
        /\ "refresh_token" \notin DOMAIN result

\* The inactive user 1 logged in with the right password and was told that
\* the e-mail or the password is incorrect.
C22_InactiveToldIncorrectPassword ==
    /\ LoggedIn
    /\ ~accounts[1].is_active
    /\ result.email = accounts[1].email
    /\ result.password = accounts[1].hashed_password
    /\ result.status = 401
    /\ result.detail = "Incorrect email or password"
    /\ "access_token" \notin DOMAIN result

Verified == result.op = "verify_token"

\* C23: verify_token returns the claims only of a token whose type is the
\* expected one: a token made by create_access_token, create_refresh_token
\* or create_survey_token and verified as another type raises
\* AuthException, and so does a token that is malformed or empty.
C23_OnlyExpectedTypeAccepted ==
    Verified =>
        /\ result.raised \in {"", "AuthException"}
        /\ (result.raised = "") =>
               /\ result.token.form = "jwt"
               /\ result.token.claims.type = result.expected_type
               /\ result.value = result.token.claims
        /\ (result.token.form # "jwt") => result.raised = "AuthException"
        /\ \A t \in IssueHours :
               /\ result.token \in {create_access_token([sub |-> "1", email |-> "ann@example.com",
                                                          role |-> "clientadmin"], t),
                                     create_access_token([sub |-> "1", type |-> "refresh"], t)}
                      => (result.raised = "") = (result.expected_type = "access"
                                                  /\ result.token.claims.exp >= now * 60)
               /\ result.token = create_refresh_token([sub |-> "1", email |-> "ann@example.com"], t)
                      => (result.raised = "") = (result.expected_type = "refresh")
               /\ result.token = create_survey_token(1, 1, 1, t)
                      => (result.raised = "") = (result.expected_type = "survey")

\* An access token made from data that names the type "refresh" was
\* verified as a refresh token, before it expired, and refused.
C23_AccessTokenRefusedAsRefresh ==
    /\ Verified
    /\ result.token = create_access_token([sub |-> "1", type |-> "refresh"], now)
    /\ result.expected_type = "refresh"
    /\ result.raised = "AuthException"
    /\ result.detail = "Invalid token type. Expected refresh"


----------------------------------------------------------------------------
(* Properties of the life of a survey *)

\* A closed survey stays as it is: closed, and not deleted.
ClosedStaysClosed ==
    \A id \in DOMAIN surveys :
        (surveys[id].exists /\ surveys[id].status = "closed") =>
            surveys'[id].exists /\ surveys'[id].status = "closed"

\* The surveys whose status or existence a step changes.
Changed == {id \in DOMAIN surveys : surveys'[id] # surveys[id]}

\* C24 (as claimed): a closed survey is never changed or deleted, a survey
\* becomes active only from draft, becomes closed only from active, and is
\* deleted only as a draft.
C24_ClosedIsFinalAndOnlyDraftActivated ==
    [][/\ ClosedStaysClosed
       /\ \A id \in Changed :
              /\ (surveys'[id].status = "active" /\ surveys[id].status # "active")
                     => surveys[id].status = "draft"
              /\ (surveys'[id].status = "closed" /\ surveys[id].status # "closed")
                     => surveys[id].status = "active"
              /\ (~surveys'[id].exists) => surveys[id].status = "draft"]_vars

\* C24 (amended): a closed survey is never changed or deleted; activate_survey
\* changes only a draft, close_survey and auto_close_expired_surveys only
\* an active survey, delete_survey only a draft, process_scheduled_surveys
\* only a scheduled survey, and update_survey only a survey that is neither
\* active nor closed.
C24_ClosedIsFinal ==
    [][/\ ClosedStaysClosed
       /\ \A id \in Changed :
              CASE result'.op = "activate_survey" ->
                       surveys[id].status = "draft" /\ surveys'[id].status = "active"
                [] result'.op \in {"close_survey", "auto_close_expired_surveys"} ->
                       surveys[id].status = "active" /\ surveys'[id].status = "closed"
                [] result'.op = "delete_survey" ->
                       surveys[id].status = "draft" /\ ~surveys'[id].exists
                [] result'.op = "process_scheduled_surveys" ->
                       surveys[id].status = "scheduled" /\ surveys'[id].status = "active"
                [] result'.op = "update_survey" ->
                       surveys[id].status \notin {"active", "closed"}]_vars

\* An update of a closed survey was refused, and so was its deletion before.
C24_ClosedSurveyRefusedUpdate ==
    /\ result.op = "update_survey"
    /\ result.status_code = 400
    /\ surveys[result.survey_id].exists
    /\ surveys[result.survey_id].status = "closed"
    /\ surveys[result.survey_id].closed_at # NoTime

\* C25: a survey whose status is active has activated_at set.
C25_ActiveHasActivatedAt ==
    \A id \in DOMAIN surveys :
        (surveys[id].exists /\ surveys[id].status = "active") =>
            surveys[id].activated_at # NoTime

\* An update set the status of a draft to active: the survey is active
\* without activated_at, and auto_close_expired_surveys passes it by.
C25_ActivatedByUpdate ==
    /\ result.op = "update_survey"
    /\ result.status_code = 200
    /\ surveys[result.survey_id].status = "active"
    /\ surveys[result.survey_id].activated_at = NoTime
    /\ ~Expired(surveys[result.survey_id])

----------------------------------------------------------------------------
(* Properties of the submission of responses *)

\* The stored responses of a respondent to a survey.
StoredFor(survey_id, respondent_id) ==
    {i \in DOMAIN responses :
        /\ responses[i].survey_id = survey_id
        /\ responses[i].respondent_id = respondent_id}

\* C26: for every survey and respondent at most one Response is stored,
\* however the requests of the two submission routes interleave.
C26_OneResponsePerRespondent ==
    \A i, j \in DOMAIN responses :
        (/\ responses[i].respondent_id # None
         /\ responses[i].survey_id = responses[j].survey_id
         /\ responses[i].respondent_id = responses[j].respondent_id) => i = j

\* A submission was answered 200 although a response of the same respondent
\* to the same survey was stored before it: both requests had passed the
\* duplicate check before either committed.
C26_SecondSubmissionStored ==
    /\ result.op \in {"submit_survey_response", "submit_authenticated_response"}
    /\ result.status_code = 200
    /\ Cardinality(StoredFor(result.survey_id, result.respondent_id)) = 2
    /\ \E i \in StoredFor(result.survey_id, result.respondent_id) :
           responses[i].invitation_id # None

----------------------------------------------------------------------------
(* Properties of the invitations *)

\* The step is a call of op for a survey that exists.
Called(op) == result'.op = op /\ result'.raised = ""

\* send_survey_invitations handles this invitation again in the step.
Resent(invitation) ==
    /\ Called("send_survey_invitations")
    /\ invitation.survey_id = result'.survey_id
    /\ invitation.respondent_id \in TargetUsers(surveys[result'.survey_id], result'.user_ids)

\* C27: reminder_count is always between 0 and 2; a step changes the
\* reminder_count of an invitation only in two ways: send_survey_reminders
\* adds one, and then the count was below 2, the email was delivered and
\* the invitation was sent, not completed and not expired; or
\* send_survey_invitations sends the invitation again and sets it to 0,
\* which it does for every invitation it sends again.
C27_ReminderCountBounded ==
    /\ [](\A id \in DOMAIN survey_invitations :
              survey_invitations[id].reminder_count \in 0..2)
    /\ [][\A id \in DOMAIN survey_invitations :
              /\ survey_invitations'[id].reminder_count
                     # survey_invitations[id].reminder_count =>
                     \/ /\ Called("send_survey_reminders")
                        /\ survey_invitations'[id].reminder_count
                               = survey_invitations[id].reminder_count + 1
                        /\ survey_invitations[id].reminder_count < 2
                        /\ result'.emails[survey_invitations[id].respondent_id]
                        /\ survey_invitations[id].survey_id = result'.survey_id
                        /\ survey_invitations[id].sent_at # NoTime
                        /\ survey_invitations[id].completed_at = NoTime
                        /\ survey_invitations[id].expires_at > now
                     \/ /\ Resent(survey_invitations[id])
                        /\ survey_invitations'[id].reminder_count = 0
              /\ Resent(survey_invitations[id]) =>
                     survey_invitations'[id].reminder_count = 0]_vars

\* send_survey_reminders passed by an invitation that is sent, not
\* completed, not expired and due, with an email that would have been
\* delivered: it had been reminded twice.
C27_ThirdReminderNotSent ==
    /\ result.op = "send_survey_reminders"
    /\ result.raised = ""
    /\ result.sent = 0
    /\ surveys[result.survey_id].reminder_enabled
    /\ \E id \in DOMAIN survey_invitations :
           /\ survey_invitations[id].reminder_count = 2
           /\ Incomplete(survey_invitations[id], result.survey_id, now)
           /\ DueWithoutLimit(survey_invitations[id], surveys[result.survey_id], now)
           /\ result.emails[survey_invitations[id].respondent_id]

----------------------------------------------------------------------------
(* Properties of the payments *)

\* The payment has been REFUNDED: a refund of its whole amount is recorded.
\* (Until a payment is refunded a second time, the recorded refund is the
\* one that made it REFUNDED.)
HasBeenRefunded(payment) ==
    /\ payment.refunded_at # NoTime
    /\ "refund_amount" \in DOMAIN payment.metadata
    /\ payment.metadata.refund_amount >= payment.amount_cents

\* C28: a payment that has been REFUNDED is not COMPLETED in any later
\* state, whatever events arrive, and a refund is accepted only for a
\* payment that is COMPLETED.
C28_RefundedNeverCompleted ==
    /\ [](\A id \in DOMAIN payments :
              HasBeenRefunded(payments[id]) => payments[id].status # "completed")
    /\ [][result'.op = "process_refund" /\ result'.raised = ""
              => /\ result'.payment_id \in DOMAIN payments
                 /\ payments[result'.payment_id].status = "completed"]_vars

\* A payment whose whole amount was refunded is COMPLETED after an event:
\* process_refund accepts it again.
C28_RefundedPaymentCompletedAgain ==
    /\ result.op = "handle_webhook_event"
    /\ \E id \in DOMAIN payments :
           /\ HasBeenRefunded(payments[id])
           /\ payments[id].status = "completed"
           /\ payments[id].paid_at >= payments[id].refunded_at
           /\ process_refund(id, 0, FALSE, now).raised = ""

----------------------------------------------------------------------------
(* Properties of the snapshot store *)

\* The step is a call of generate_ai_insights.
InsightsCalled == result'.op = "generate_ai_insights"

\* The last operation was a call whose enrichment failed.
EnrichmentJustFailed ==
    /\ result.op = "generate_ai_insights"
    /\ result.enrichment \in {"raised", "commit_failed"}

\* The step is the next call, for the same survey and not forced.
NextCallNotForced ==
    /\ InsightsCalled
    /\ result'.survey_id = result.survey_id
    /\ ~result'.force_regenerate

\* A snapshot is written only by a call whose enrichment answered, a call
\* whose enrichment failed leaves the snapshots as they were, and no
\* snapshot holds the output of the fallback.
FallbackNeverStored ==
    /\ [][snapshots' # snapshots =>
              InsightsCalled /\ result'.enrichment = "answered"]_vars
    /\ [][InsightsCalled /\ result'.enrichment \in {"raised", "commit_failed"} =>
              /\ snapshots' = snapshots
              /\ "source" \in DOMAIN result'.value
              /\ result'.value.source = "automated_analysis"]_vars
    /\ [](\A i \in DOMAIN snapshots : "source" \notin DOMAIN snapshots[i].data)

ForcedCallSucceeded ==
    /\ result.op = "generate_ai_insights"
    /\ result.force_regenerate
    /\ result.enrichment = "answered"

\* C30: the non-forced call that follows a forced call that succeeded
\* returns the insights the forced call generated.
C30_RegeneratedInsightsServed ==
    [][ForcedCallSucceeded /\ NextCallNotForced => result'.value = result.value]_vars

\* A call that was not forced returned the data of a snapshot although a
\* newer unexpired snapshot of the survey, with other data, is stored.
C30_OlderSnapshotServed ==
    /\ result.op = "generate_ai_insights"
    /\ ~result.force_regenerate
    /\ result.cached
    /\ \E old, new \in CachedInsights(snapshots, result.survey_id, now) :
           /\ old.data = result.value
           /\ new.created_at > old.created_at
           /\ new.data # old.data

====
